---- MODULE Spec2Model ----
(***************************************************************************)
(* TCanny (VapourSynth port): a verification model of src/TCanny/TCanny.cpp *)
(*                                                                         *)
(* The module holds these state machines over one set of variables:        *)
(*   SpecHyst    hysteresis() on an arbitrary suppressed map, followed by   *)
(*               the mode 0 encoder binarizeCE(); SpecHystFair is the same  *)
(*               machine on the smaller maps, with the pass always taking   *)
(*               its next step;                                             *)
(*   SpecHystLow the same machine with t_l down to -FLT_MAX, stopping at    *)
(*               the first access outside the plane;                        *)
(*   SpecCreate  tcannyCreate() on arbitrary arguments, followed by         *)
(*               tcannyFree() of the filter it created;                     *)
(*   SpecFrame   interleaved tcannyGetFrame() invocations on one filter     *)
(*               instance, one allocation or one stage of process() per     *)
(*               step, any allocation may fail;                             *)
(*   SpecPlane   the stages of process() on the samples of one plane: the   *)
(*               Gaussian blur, detectEdge(), nonMaximumSuppression(),      *)
(*               hysteresis() and the encoders of modes -1, 0 and 1;        *)
(*   SpecBin     getBin() on one direction, as nonMaximumSuppression() and  *)
(*               the encoders of modes 2 and 3 call it for one pixel.       *)
(*                                                                         *)
(* Numbers.  A C float is modelled by an exact number: float rounding is    *)
(* not modelled, NaN and the infinities are not values of the model.        *)
(* -FLT_MAX and FLT_MAX are the integers -FltMax and FltMax, which lie      *)
(* below and above every magnitude of the model, and below every threshold  *)
(* except in SpecHystLow.                                                   *)
(* The non-SIMD (#else) build is the one modelled; the SIMD build has the   *)
(* same loops, eight samples at a time.                                     *)
(***************************************************************************)
EXTENDS Integers, Sequences, FiniteSets, TLC

VARIABLES
    hy,     \* the running hysteresis() call and the plane it encodes
    cr,     \* tcannyCreate(): its arguments and its outcome
    fr,     \* tcannyGetFrame() invocations: invocation -> its locals
    heap,   \* the vs_aligned_malloc blocks: held, owner and contents by address
    pl,     \* process() on one plane: its buffers and its position
    bn      \* getBin() on one direction, and the encoder of the pixel

vars == <<hy, cr, fr, heap, pl, bn>>

(***************************************************************************)
(* Bounds of the model.                                                     *)
(***************************************************************************)
\* Largest gradient magnitude of a drawn suppressed map.
MaxGrad == 2

\* Plane sizes <<width, height>> of the drawn suppressed maps: no interior,
\* one interior cell, a row of three (a chain whose ends are not adjacent),
\* a column of two, and a 2 x 2 block (diagonal neighbours).
HystShapes == { <<1, 1>>, <<2, 3>>, <<3, 3>>, <<5, 3>>, <<3, 4>>, <<4, 4>> }

(***************************************************************************)
(* Sentinels and small helpers.                                             *)
(***************************************************************************)
FltMax == 2000000000
UInt8Max == 255

Min(a, b) == IF a < b THEN a ELSE b
Max(a, b) == IF a > b THEN a ELSE b

\* The cells of a width x height plane, as <<y, x>>.
Cells(width, height) == (0 .. height - 1) \X (0 .. width - 1)

(***************************************************************************)
(* Stack, push, pop.  pos holds the entries 0 .. index of the array, so     *)
(* Len(pos) = index + 1.                                                    *)
(***************************************************************************)
push(h, x, y) == [h EXCEPT !.index = @ + 1, !.pos = Append(@, <<x, y>>)]

pop(h) == [h EXCEPT !.index = @ - 1, !.pos = SubSeq(@, 1, Len(@) - 1)]

top(h) == h.pos[h.index + 1]

(***************************************************************************)
(* hysteresis(): the two scan loops and the drain loop, one branch a step.  *)
(*   pc = "start"  before the memset                                        *)
(*   pc = "scan"   at the head of the body of the x loop, at (x, y)         *)
(*   pc = "drain"  at the test of the while loop                            *)
(*   pc = "done"   returned                                                 *)
(***************************************************************************)
\* The nine cells the two inner for loops visit around pos, in loop order.
Around(p) ==
    [k \in 1 .. 9 |-> <<p[1] - 1 + ((k - 1) % 3), p[2] - 1 + ((k - 1) \div 3)>>]

\* Mutant of IsWeakUnvisited: the neighbour is held to the high threshold.
IsWeakUnvisitedHigh(h, xx, yy) == h.blur[yy, xx] >= h.t_h /\ h.map[yy, xx] = 0

\* The test of line 760 on neighbour <<xx, yy>>.
IsWeakUnvisited(h, xx, yy) == h.blur[yy, xx] >= h.t_l /\ h.map[yy, xx] = 0

\* Mutant of Confirm: the pixel is marked and pushed, the map is not written.
ConfirmMarkOnly(h, xx, yy) ==
    push([h EXCEPT !.map[yy, xx] = UInt8Max], xx, yy)

\* Lines 761-763.
Confirm(h, xx, yy) ==
    push([h EXCEPT !.blur[yy, xx] = FltMax, !.map[yy, xx] = UInt8Max], xx, yy)

\* The body of the two inner loops on the cells in order; g is the state the
\* loops have reached at the head of cells.
RECURSIVE VisitAround(_, _)
VisitAround(h, cells) ==
    IF cells = <<>> THEN h
    ELSE LET c == Head(cells)
         IN CHOOSE r \in { VisitAround(IF IsWeakUnvisited(g, c[1], c[2])
                                         THEN Confirm(g, c[1], c[2]) ELSE g,
                                       Tail(cells)) : g \in {h} } : TRUE

\* Mutant of IsSkipped: the comparison with t_h is turned around.
IsSkippedInverted(h) == h.blur[h.y, h.x] > h.t_h \/ h.map[h.y, h.x] # 0

\* The test of line 748: this cell is not a seed.
IsSkipped(h) == h.blur[h.y, h.x] < h.t_h \/ h.map[h.y, h.x] # 0

\* Which branch hysteresis() takes next from h.
HystBranch(h) ==
    CASE h.pc = "start" -> "memset"
      [] h.pc = "scan" /\ h.y >= h.height - 1 -> "return"
      [] h.pc = "scan" /\ h.y < h.height - 1 /\ h.x >= h.width - 1 -> "nextrow"
      [] h.pc = "scan" /\ h.y < h.height - 1 /\ h.x < h.width - 1 /\ IsSkipped(h)
            -> "continue"
      [] h.pc = "scan" /\ h.y < h.height - 1 /\ h.x < h.width - 1 /\ ~IsSkipped(h)
            -> "seed"
      [] h.pc = "drain" /\ h.index > -1 -> "pop"
      [] h.pc = "drain" /\ h.index <= -1 -> "drained"
      [] OTHER -> "none"

hysteresis(h) ==
    LET b == HystBranch(h) IN
    CASE b = "memset" ->
            [h EXCEPT !.map = [c \in Cells(h.width, h.height) |-> 0],
                      !.index = -1, !.pos = <<>>, !.y = 1, !.x = 1, !.pc = "scan"]
      [] b = "return" -> [h EXCEPT !.pc = "done"]
      [] b = "nextrow" -> [h EXCEPT !.y = @ + 1, !.x = 1]
      [] b = "continue" -> [h EXCEPT !.x = @ + 1]
      [] b = "seed" -> [Confirm(h, h.x, h.y) EXCEPT !.pc = "drain"]
      [] b = "pop" -> VisitAround(pop(h), Around(top(h)))
      [] b = "drained" -> [h EXCEPT !.x = @ + 1, !.pc = "scan"]
      [] OTHER -> h

\* hysteresis() run from h to its return.
RECURSIVE HystRun(_)
HystRun(h) == IF HystBranch(h) = "none" THEN h ELSE HystRun(hysteresis(h))

(***************************************************************************)
(* Video formats (VSFormat) and the per-format fields of TCannyData that    *)
(* tcannyCreate() derives from them.  The float constants offset, lower and *)
(* upper (0, 0.5, -0.5, 1) are kept in halves: 0, 1, -1, 2.                 *)
(***************************************************************************)
Format(cf, st, bits, np) ==
    [colorFamily |-> cf, sampleType |-> st, bitsPerSample |-> bits,
     numPlanes |-> np, constant |-> TRUE]

\* Formats tcannyCreate() accepts.
GoodFormats ==
    { Format("cmGray", "stInteger", 8, 1),
      Format("cmYUV", "stInteger", 10, 3),
      Format("cmYUV", "stInteger", 16, 3),
      Format("cmRGB", "stInteger", 8, 3),
      Format("cmYUV", "stFloat", 32, 3),
      Format("cmRGB", "stFloat", 32, 3) }

\* Formats it rejects: 32-bit integer, 16-bit float, and a clip whose format
\* or size may change from frame to frame.
BadFormats ==
    { Format("cmGray", "stInteger", 32, 1),
      Format("cmYUV", "stFloat", 16, 3),
      [Format("cmYUV", "stInteger", 8, 3) EXCEPT !.constant = FALSE] }

\* A field tcannyCreate() leaves unset.
Unset == "unset"

\* Lines 1057-1058: d.bins and d.peak of an integer format; line 1076 for float.
BinsOf(f) == IF f.sampleType = "stInteger" THEN 2 ^ f.bitsPerSample ELSE 1
PeakOf(f) == IF f.sampleType = "stInteger" THEN BinsOf(f) - 1 ELSE Unset

\* Lines 1078-1090: offset, lower and upper of a processed plane of a float
\* format, in halves.
IsCentred(f, plane) == plane = 0 \/ f.colorFamily = "cmRGB"
OffsetOf(f, plane) == IF IsCentred(f, plane) THEN 0 ELSE 1
LowerOf(f, plane) == IF IsCentred(f, plane) THEN 0 ELSE -1
UpperOf(f, plane) == IF IsCentred(f, plane) THEN 2 ELSE 1

(***************************************************************************)
(* binarizeCE<T>: the mode 0 encoder, over the plane's cells.               *)
(***************************************************************************)
\* Mutant of binarizeCE: every cell that is not suppressed counts as an edge.
binarizeCENotSuppressed(blur, width, height, sampleType, peak, lower, upper) ==
    [c \in Cells(width, height) |->
        IF sampleType = "stInteger"
          THEN (IF blur[c] >= 0 THEN peak ELSE 0)
          ELSE (IF blur[c] >= 0 THEN upper ELSE lower)]

binarizeCE(blur, width, height, sampleType, peak, lower, upper) ==
    [c \in Cells(width, height) |->
        IF sampleType = "stInteger"
          THEN (IF blur[c] = FltMax THEN peak ELSE 0)
          ELSE (IF blur[c] = FltMax THEN upper ELSE lower)]

(***************************************************************************)
(* SpecHyst: hysteresis() on a drawn suppressed map, then binarizeCE().     *)
(***************************************************************************)
\* What the variables of the other machines hold while one machine runs.
Idle == [pc |-> "idle"]

\* The maps nonMaximumSuppression() can leave: -FLT_MAX on the border, and
\* in the interior -FLT_MAX or a magnitude.
IsBorder(width, height, c) ==
    c[1] = 0 \/ c[1] = height - 1 \/ c[2] = 0 \/ c[2] = width - 1

InteriorCells(width, height) ==
    { c \in Cells(width, height) : ~IsBorder(width, height, c) }

SuppressedMaps(width, height) ==
    { [c \in Cells(width, height) |->
          IF IsBorder(width, height, c) THEN -FltMax ELSE m[c]] :
      m \in [InteriorCells(width, height) -> {-FltMax} \cup (0 .. MaxGrad)] }

\* The accepted threshold pairs (t_l < t_h, line 1001), as scaled by
\* tcannyCreate(): t_l may be zero or negative.
Thresholds == { t \in (-1 .. MaxGrad) \X (0 .. MaxGrad + 1) : t[1] < t[2] }

\* The locals of hysteresis() on entry: the map m, the visit mask as malloc
\* or the previous plane left it (every byte g), Stack stack {}.
HystEntry(width, height, m, t_l, t_h, g) ==
    [pc |-> "start", width |-> width, height |-> height,
     t_l |-> t_l, t_h |-> t_h, pre |-> m, blur |-> m,
     map |-> [c \in Cells(width, height) |-> g],
     pos |-> <<>>, index |-> 0, x |-> 0, y |-> 0,
     format |-> Unset, plane |-> 0, dstp |-> <<>>]

HystInit ==
    /\ \E s \in HystShapes, t \in Thresholds, g \in {0, UInt8Max} :
         \E m \in SuppressedMaps(s[1], s[2]) :
            hy = HystEntry(s[1], s[2], m, t[1], t[2], g)
    /\ cr = Idle /\ fr = Idle /\ heap = Idle /\ pl = Idle /\ bn = Idle

HystOthers == UNCHANGED <<cr, fr, heap, pl, bn>>

HystMemset == HystBranch(hy) = "memset" /\ hy' = hysteresis(hy) /\ HystOthers
HystNextRow == HystBranch(hy) = "nextrow" /\ hy' = hysteresis(hy) /\ HystOthers
HystContinue == HystBranch(hy) = "continue" /\ hy' = hysteresis(hy) /\ HystOthers
HystSeed == HystBranch(hy) = "seed" /\ hy' = hysteresis(hy) /\ HystOthers
HystPop == HystBranch(hy) = "pop" /\ hy' = hysteresis(hy) /\ HystOthers
HystDrained == HystBranch(hy) = "drained" /\ hy' = hysteresis(hy) /\ HystOthers
HystReturn == HystBranch(hy) = "return" /\ hy' = hysteresis(hy) /\ HystOthers

\* process(), lines 856-857: mode 0 hands the map to binarizeCE<T>.
HystEncode ==
    /\ hy.pc = "done"
    /\ \E f \in GoodFormats : \E p \in 0 .. f.numPlanes - 1 :
         hy' = [hy EXCEPT !.pc = "encoded", !.format = f, !.plane = p,
                  !.dstp = binarizeCE(hy.blur, hy.width, hy.height, f.sampleType,
                                      PeakOf(f), LowerOf(f, p), UpperOf(f, p))]
    /\ HystOthers

HystNext ==
    \/ HystMemset \/ HystNextRow \/ HystContinue \/ HystSeed
    \/ HystPop \/ HystDrained \/ HystReturn \/ HystEncode

SpecHyst == HystInit /\ [][HystNext]_vars

\* The steps of hysteresis() itself, lines 742-770.
HystPass ==
    \/ HystMemset \/ HystNextRow \/ HystContinue \/ HystSeed
    \/ HystPop \/ HystDrained \/ HystReturn

\* The shapes of the fair specification: no interior, one interior pixel,
\* two adjacent interior pixels.
HystFairShapes == { <<1, 1>>, <<3, 3>>, <<4, 3>> }

HystFairInit ==
    /\ \E s \in HystFairShapes, t \in Thresholds, g \in {0, UInt8Max} :
         \E m \in SuppressedMaps(s[1], s[2]) :
            hy = HystEntry(s[1], s[2], m, t[1], t[2], g)
    /\ cr = Idle /\ fr = Idle /\ heap = Idle /\ pl = Idle /\ bn = Idle

\* hysteresis() is straight-line code run by the thread that called it:
\* whenever the pass has a next step, it takes it.
SpecHystFair == HystFairInit /\ [][HystNext]_vars /\ WF_vars(HystPass)

(***************************************************************************)
(* hysteresis() with the low threshold down to -FLT_MAX.  tcannyCreate()    *)
(* refuses t_l >= t_h only (line 1001), and scale() at 8 bits multiplies by *)
(* 255 / 255, so t_l = -FLT_MAX reaches hysteresis() as given.  The border  *)
(* cells of the map then pass the test of line 760.  An access of the drain *)
(* loop outside [0, width) x [0, height) is outside the arrays as the       *)
(* function indexes them; what follows it is not defined, and the machine   *)
(* stops in pc = "stray" after that pop.                                    *)
(***************************************************************************)
AcceptedThresholds ==
    Thresholds \cup { <<-FltMax, t_h>> : t_h \in -1 .. MaxGrad + 1 }

\* The nine cells of lines 758-759 around the entry on top of the stack all
\* lie in the plane.
AroundWithinMap(h) ==
    \A k \in 1 .. 9 :
        LET c == Around(top(h))[k] IN <<c[2], c[1]>> \in Cells(h.width, h.height)

HystLowInit ==
    /\ \E s \in HystFairShapes, t \in AcceptedThresholds, g \in {0, UInt8Max} :
         \E m \in SuppressedMaps(s[1], s[2]) :
            hy = HystEntry(s[1], s[2], m, t[1], t[2], g)
    /\ cr = Idle /\ fr = Idle /\ heap = Idle /\ pl = Idle /\ bn = Idle

\* The drain loop pops an entry whose neighbours all lie in the plane.
HystPopWithin ==
    /\ HystBranch(hy) = "pop"
    /\ AroundWithinMap(hy)
    /\ HystPop

\* Lines 758-766 around an entry with neighbours outside the plane.  The
\* test of line 760 on such a neighbour reads outside the arrays as indexed
\* by (xx, yy): it passes for the neighbours in passing, whose coordinates are
\* then pushed; the stores of lines 761-762 land outside the plane.
\* One neighbour c of the popped entry, lines 760-764.
StrayVisit(h, c, passing) ==
    LET within == <<c[2], c[1]>> \in Cells(h.width, h.height)
    IN CASE within /\ IsWeakUnvisited(h, c[1], c[2]) -> Confirm(h, c[1], c[2])
         [] ~within /\ c \in passing -> push(h, c[1], c[2])
         [] OTHER -> h

\* The nine neighbours in loop order; g is the state the loops have reached.
RECURSIVE StrayAround(_, _, _)
StrayAround(h, cells, passing) ==
    IF cells = <<>> THEN h
    ELSE CHOOSE r \in { StrayAround(StrayVisit(g, Head(cells), passing),
                                    Tail(cells), passing) : g \in {h} } : TRUE

\* The neighbours of the entry on top of the stack that lie outside the plane.
OutsideAround(h) ==
    { c \in { Around(top(h))[k] : k \in 1 .. 9 } :
        <<c[2], c[1]>> \notin Cells(h.width, h.height) }

\* The drain loop pops an entry with a neighbour outside the plane: any of
\* the outside neighbours may pass line 760, and the pass is followed no
\* further.
HystStray ==
    /\ HystBranch(hy) = "pop"
    /\ ~AroundWithinMap(hy)
    /\ \E passing \in SUBSET OutsideAround(hy) :
         hy' = [StrayAround(pop(hy), Around(top(hy)), passing)
                  EXCEPT !.pc = "stray"]
    /\ HystOthers

HystLowNext ==
    \/ HystMemset \/ HystNextRow \/ HystContinue \/ HystSeed
    \/ HystPopWithin \/ HystDrained \/ HystReturn \/ HystEncode
    \/ HystStray

SpecHystLow == HystLowInit /\ [][HystLowNext]_vars

\* The steps of hysteresis() itself in this machine.
HystLowPass ==
    \/ HystMemset \/ HystNextRow \/ HystContinue \/ HystSeed
    \/ HystPopWithin \/ HystDrained \/ HystReturn \/ HystStray

\* As in SpecHystFair: the calling thread takes every next step of the pass.
SpecHystLowFair == HystLowInit /\ [][HystLowNext]_vars /\ WF_vars(HystLowPass)

(***************************************************************************)
(* gaussianWeights().  sigma, t_h, t_l and gmmax are kept in tenths         *)
(* (sigma = 15 is 1.5).  exp() is tabulated at the points the modelled      *)
(* sigmas need, to the nearest 1/130, and a weight is the pair of its       *)
(* numerator num[k] and the common denominator den (the sum of line 85), so *)
(* that weights[k] = num[k] / den and the weights sum to exactly 1.         *)
(***************************************************************************)
Sigmas == {1, 3, 6, 15, 25}

\* 130 * exp(-(k * k) / (2 * sigma * sigma)), rounded: line 83.
ExpQ(sigma, k) ==
    LET a == IF k < 0 THEN -k ELSE k IN
    CASE sigma = 1 -> <<130, 0>>[a + 1]
      [] sigma = 3 -> <<130, 1>>[a + 1]
      [] sigma = 6 -> <<130, 32, 1>>[a + 1]
      [] sigma = 15 -> <<130, 104, 53, 18, 4, 1>>[a + 1]
      [] sigma = 25 -> <<130, 120, 94, 63, 36, 18, 7, 3, 1>>[a + 1]

\* Lines 74-75: static_cast<int>(sigma * 3 + 0.5), at least 1.
RadiusOf(sigma) == Max((3 * sigma + 5) \div 10, 1)

RECURSIVE SumOver(_, _, _)
SumOver(f, lo, hi) == IF lo > hi THEN 0 ELSE f[lo] + SumOver(f, lo + 1, hi)

RECURSIVE GCD(_, _)
GCD(m, n) == IF n = 0 THEN m ELSE GCD(n, m % n)

\* The common divisor of f[lo .. hi].
RECURSIVE GCDOver(_, _, _)
GCDOver(f, lo, hi) == IF lo > hi THEN 0 ELSE GCD(f[lo], GCDOver(f, lo + 1, hi))

\* Lines 73-92; the fractions num[k] / den are kept in lowest terms.
gaussianWeights(sigma) ==
    LET radius == RadiusOf(sigma)
        w == [k \in -radius .. radius |-> ExpQ(sigma, k)]
        q == GCDOver(w, -radius, radius)
    IN [radius |-> radius,
        num |-> [k \in -radius .. radius |-> w[k] \div q],
        den |-> SumOver(w, -radius, radius) \div q]

(***************************************************************************)
(* tcannyCreate(): the argument checks in the order of the code, the plane  *)
(* loop, the per-format fields and the weight table.  Its outcome names the *)
(* error set (or ""), what became of the clip node, whether a weight table  *)
(* was allocated and whether createFilter() was called with data d.         *)
(***************************************************************************)
ErrSigma == "TCanny: sigma must be greater than 0.0"
ErrThreshold == "TCanny: t_h must be greater than t_l"
ErrMode == "TCanny: mode must be -1, 0, 1, 2 or 3"
ErrOp == "TCanny: op must be 0, 1, 2 or 3"
ErrGmmax == "TCanny: gmmax must be greater than or equal to 1.0"
ErrFormat == "TCanny: only constant format 8-16 bits integer and 32 bits float input supported"
ErrPlaneRange == "TCanny: plane index out of range"
ErrPlaneTwice == "TCanny: plane specified twice"
ErrWeights == "TCanny: malloc failure (weights)"

CreateFailed(err, node) ==
    [error |-> err, node |-> node, weights |-> "none", filter |-> FALSE,
     d |-> Unset]

\* Lines 1036-1052: the loop over the planes argument from element i on;
\* the result is the error it stops with, or the process flags.
RECURSIVE PlaneLoop(_, _, _, _)
PlaneLoop(process, planes, i, numPlanes) ==
    IF i > Len(planes) THEN [error |-> "", process |-> process]
    ELSE LET n == planes[i] IN
         IF n < 0 \/ n >= numPlanes THEN [error |-> ErrPlaneRange, process |-> process]
         ELSE IF process[n] THEN [error |-> ErrPlaneTwice, process |-> process]
         ELSE PlaneLoop([process EXCEPT ![n] = TRUE], planes, i + 1, numPlanes)

\* Lines 1031-1034: m <= 0 selects every plane.
ProcessFlags(planes, numPlanes) ==
    PlaneLoop([i \in 0 .. 2 |-> Len(planes) <= 0], planes, 1, numPlanes)

\* Mutant of FormatRejected: the float depth is not examined.
FormatRejectedIntegerOnly(f) ==
    \/ ~f.constant
    \/ f.sampleType = "stInteger" /\ f.bitsPerSample > 16

\* Lines 1024-1025.
FormatRejected(f) ==
    \/ ~f.constant
    \/ f.sampleType = "stInteger" /\ f.bitsPerSample > 16
    \/ f.sampleType = "stFloat" /\ f.bitsPerSample # 32

\* Lines 1054-1098 and 1106-1108: the fields of d set after the checks.
\* t_h and t_l are scaled to the depth: scale(val, bits) for integer, val / 255
\* for float; they are kept in units of 1/2550 of a sample (tenths over 255).
\* magnitude = 255 / gmmax is the pair magNum / magDen.
FilterData(a, process) ==
    LET f == a.format
        int == f.sampleType = "stInteger"
        set(p) == ~int /\ p < f.numPlanes /\ process[p]
    IN [sigma |-> a.sigma, mode |-> a.mode, op |-> a.op, gmmax |-> a.gmmax,
        format |-> f, process |-> process,
        t_h |-> IF int THEN a.t_h * (2 ^ f.bitsPerSample - 1) ELSE a.t_h,
        t_l |-> IF int THEN a.t_l * (2 ^ f.bitsPerSample - 1) ELSE a.t_l,
        bins |-> BinsOf(f), peak |-> PeakOf(f),
        offset |-> [p \in 0 .. 2 |-> IF set(p) THEN OffsetOf(f, p) ELSE Unset],
        lower |-> [p \in 0 .. 2 |-> IF set(p) THEN LowerOf(f, p) ELSE Unset],
        upper |-> [p \in 0 .. 2 |-> IF set(p) THEN UpperOf(f, p) ELSE Unset],
        weights |-> gaussianWeights(a.sigma),
        radius |-> RadiusOf(a.sigma),
        radiusAlign |-> ((RadiusOf(a.sigma) + 7) \div 8) * 8,
        magNum |-> 2550, magDen |-> a.gmmax]

\* a: the arguments; ok: whether new (std::nothrow) float[diameter] succeeds.
tcannyCreate(a, ok) ==
    IF a.sigma <= 0 THEN CreateFailed(ErrSigma, "none")
    ELSE IF a.t_l >= a.t_h THEN CreateFailed(ErrThreshold, "none")
    ELSE IF a.mode < -1 \/ a.mode > 3 THEN CreateFailed(ErrMode, "none")
    ELSE IF a.op < 0 \/ a.op > 3 THEN CreateFailed(ErrOp, "none")
    ELSE IF a.gmmax < 10 THEN CreateFailed(ErrGmmax, "none")
    ELSE IF FormatRejected(a.format) THEN CreateFailed(ErrFormat, "freed")
    ELSE LET pf == ProcessFlags(a.planes, a.format.numPlanes) IN
         IF pf.error # "" THEN CreateFailed(pf.error, "freed")
         ELSE IF ~ok THEN CreateFailed(ErrWeights, "freed")
         ELSE [error |-> "", node |-> "held", weights |-> "allocated",
               filter |-> TRUE, d |-> FilterData(a, pf.process)]

\* tcannyFree(): lines 961-968, on the outcome r of a successful tcannyCreate().
tcannyFree(r) == [r EXCEPT !.node = "freed", !.weights = "deleted"]

(***************************************************************************)
(* The construction machine: the host calls tcannyCreate() with arguments   *)
(* a, and later frees a filter that was created.                            *)
(***************************************************************************)
Args(sigma, t_l, t_h, mode, op, gmmax, format, planes) ==
    [sigma |-> sigma, t_l |-> t_l, t_h |-> t_h, mode |-> mode, op |-> op,
     gmmax |-> gmmax, format |-> format, planes |-> planes]

PlaneLists ==
    {<<>>} \cup { <<i>> : i \in -1 .. 3 } \cup { <<i, j>> : i, j \in -1 .. 3 }

\* sigma, gmmax and the thresholds in tenths: gmmax 9 is 0.9, the first value
\* below the limit 1.0 of line 1016.
CreateInit ==
    /\ \E sigma \in {-15, 0, 15}, t \in { <<10, 80>>, <<80, 80>>, <<90, 80>> },
          mode \in -2 .. 4, op \in {-1, 0, 3, 4}, gmmax \in {9, 10, 500},
          f \in GoodFormats \cup BadFormats, planes \in PlaneLists :
         cr = [pc |-> "args", r |-> Unset,
               a |-> Args(sigma, t[1], t[2], mode, op, gmmax, f, planes)]
    /\ hy = Idle /\ fr = Idle /\ heap = Idle /\ pl = Idle /\ bn = Idle

CreateOthers == UNCHANGED <<hy, fr, heap, pl, bn>>

Create ==
    /\ cr.pc = "args"
    /\ \E ok \in BOOLEAN :
         cr' = [cr EXCEPT !.pc = "returned", !.r = tcannyCreate(cr.a, ok)]
    /\ CreateOthers

CreateFree ==
    /\ cr.pc = "returned" /\ cr.r.filter
    /\ cr' = [cr EXCEPT !.pc = "freed", !.r = tcannyFree(cr.r)]
    /\ CreateOthers

CreateNext == Create \/ CreateFree

SpecCreate == CreateInit /\ [][CreateNext]_vars

(***************************************************************************)
(* tcannyGetFrame(), activation arAllFramesReady, one step at a time so     *)
(* that invocations on the same filter can interleave (fmParallel).  An     *)
(* invocation is a record f of its locals; the heap h is shared by all      *)
(* invocations.  What a buffer or a plane holds is abstracted to its        *)
(* history: the stages that produced it and the source planes it came from. *)
(***************************************************************************)
MaxInvocations == 2

Invocations == 1 .. MaxInvocations

\* buffer, blur, gradient, direction, stack.map and stack.pos of each invocation.
Addrs == 1 .. 6 * MaxInvocations

Null == 0

Content(stages, origin) == [stages |-> stages, origin |-> origin]

\* A block that malloc returned and nothing has written.
Uninit == Content(<<>>, {})

\* Plane p of frame n of the input clip.
SrcPlane(n, p) == Content(<<>>, {<<n, p>>})

EmptyHeap ==
    [alloc |-> {}, owner |-> [p \in Addrs |-> 0], mem |-> [p \in Addrs |-> Uninit]]

\* Mutant of vs_aligned_malloc: every call returns the same block.
vs_aligned_malloc_static(h, id, ok) ==
    IF ~ok THEN [p |-> Null, heap |-> h]
    ELSE [p |-> 1,
          heap |-> [h EXCEPT !.alloc = @ \cup {1}, !.owner[1] = id, !.mem[1] = Uninit]]

\* The blocks the allocator hands to invocation id.  A block is never handed
\* out while it is held; a block freed and handed out again is uninitialised,
\* so which free block a call returns cannot be observed, and the allocator
\* serves each invocation from a range of its own.
Arena(id) == { p \in Addrs : (p - 1) \div 6 = id - 1 }

\* vs_aligned_malloc for invocation id: a block no one holds, or nullptr.
vs_aligned_malloc(h, id, ok) ==
    IF ~ok \/ Arena(id) \ h.alloc = {} THEN [p |-> Null, heap |-> h]
    ELSE LET free == Arena(id) \ h.alloc
             p == CHOOSE q \in free : \A r \in free : q <= r
         IN [p |-> p,
             heap |-> [h EXCEPT !.alloc = @ \cup {p}, !.owner[p] = id, !.mem[p] = Uninit]]

\* vs_aligned_free: free(nullptr) does nothing.
vs_aligned_free(h, p) ==
    IF p = Null THEN h
    ELSE [h EXCEPT !.alloc = @ \ {p}, !.owner[p] = 0, !.mem[p] = Uninit]

\* Lines 884-887: the source frame is fetched, and newVideoFrame2 copies into
\* dst the planes that are not processed (fr[i] = src) and leaves the others
\* to be written.
NewInvocation(n) ==
    [pc |-> "idle", n |-> n, src |-> "none", dst |-> "none", dstp |-> <<>>,
     buffer |-> Null, blur |-> Null, gradient |-> Null, direction |-> Null,
     map |-> Null, pos |-> Null, error |-> "", plane |-> 0, ret |-> "none"]

newVideoFrame2(d, n) ==
    [p \in 0 .. d.format.numPlanes - 1 |->
        IF d.process[p] THEN Uninit ELSE SrcPlane(n, p)]

\* The common tail of every failure path: lines 891-894, 900-903, 910-913,
\* 919-922 and 932-935.
MallocFailure(f, what) ==
    [f EXCEPT !.error = "TCanny: malloc failure (" \o what \o ")",
              !.src = "released", !.dst = "released",
              !.ret = "nullptr", !.pc = "returned"]

\* Where the allocations continue after blur (line 907), after gradient
\* (line 916) and after direction (line 928).
AfterBlur(d) == IF d.mode # -1 THEN "gradient" ELSE "process"
AfterGradient(d) == IF d.mode # 1 THEN "direction" ELSE "process"
AfterDirection(d) == IF d.mode % 2 = 0 THEN "stack" ELSE "process"

\* A stage applied to what it read.
Stage(c, name) == Content(Append(c.stages, name), c.origin)
Combine(a, b) == Content(a.stages \o b.stages, a.origin \cup b.origin)

\* Mutant of ReadPlane: the read pointer is always that of plane 0.
ReadPlaneZero(f, plane) == SrcPlane(f.n, 0)

\* Line 829: getReadPtr(src, plane).
ReadPlane(f, plane) == SrcPlane(f.n, plane)

\* Lines 823-824: the next plane at or after p that is processed, or numPlanes.
RECURSIVE NextPlane(_, _)
NextPlane(d, p) ==
    IF p >= d.format.numPlanes \/ d.process[p] THEN p ELSE NextPlane(d, p + 1)

\* Mutant of AfterGaussianBlur: the edge detection is never run.
AfterGaussianBlurToEncoder(d) == "encode"

\* The stage of process() that follows the blur (line 838), the edge
\* detection (line 841) and the encoder (the loop of line 823).
AfterGaussianBlur(d) == IF d.mode # -1 THEN "detectEdge" ELSE "encode"
AfterDetectEdge(d) == IF d.mode % 2 = 0 THEN "hysteresis" ELSE "encode"
AfterEncode(d, p) ==
    IF NextPlane(d, p + 1) >= d.format.numPlanes THEN "release" ELSE "blurVertical"

\* Lines 854-864: what the encoder of the mode reads.
EncoderInput(f, h, d) ==
    CASE d.mode = -1 -> Stage(h.mem[f.blur], "outputGB")
      [] d.mode = 0 -> Stage(h.mem[f.blur], "binarizeCE")
      [] d.mode = 1 -> Stage(h.mem[f.gradient], "discretizeGM")
      [] d.mode = 2 -> Stage(Combine(h.mem[f.blur], h.mem[f.direction]), "discretizeDM_T")
      [] d.mode = 3 -> Stage(h.mem[f.direction], "discretizeDM")

\* One stage of process() on plane f.plane: lines 825-864.
process(f, h, d) ==
    CASE f.pc = "blurVertical" ->
           [f |-> [f EXCEPT !.pc = "blurHorizontal"],
            heap |-> [h EXCEPT !.mem[f.buffer] =
                        Stage(ReadPlane(f, f.plane), "gaussianBlurVertical")]]
      [] f.pc = "blurHorizontal" ->
           [f |-> [f EXCEPT !.pc = AfterGaussianBlur(d)],
            heap |-> [h EXCEPT !.mem[f.blur] =
                        Stage(h.mem[f.buffer], "gaussianBlurHorizontal")]]
      [] f.pc = "detectEdge" ->
           LET g == Stage(h.mem[f.blur], "detectEdge") IN
           [f |-> [f EXCEPT !.pc = AfterDetectEdge(d)],
            heap |-> IF d.mode # 1
                     THEN [h EXCEPT !.mem[f.gradient] = g, !.mem[f.direction] = g]
                     ELSE [h EXCEPT !.mem[f.gradient] = g]]
      [] f.pc = "hysteresis" ->
           LET nms == Stage(Combine(h.mem[f.gradient], h.mem[f.direction]),
                            "nonMaximumSuppression")
           IN [f |-> [f EXCEPT !.pc = "encode"],
               heap |-> [h EXCEPT !.mem[f.blur] = Stage(nms, "hysteresis"),
                                  !.mem[f.map] = Stage(nms, "map"),
                                  !.mem[f.pos] = Stage(nms, "pos")]]
      [] f.pc = "encode" ->
           [f |-> [f EXCEPT !.dstp[f.plane] = EncoderInput(f, h, d),
                            !.plane = NextPlane(d, f.plane + 1),
                            !.pc = AfterEncode(d, f.plane)],
            heap |-> h]

\* One step of invocation id: ok1 and ok2 are the results of the
\* allocations the step makes, if it makes any.
tcannyGetFrame(f, h, d, id, ok1, ok2) ==
    CASE f.pc = "idle" ->
           [f |-> [f EXCEPT !.src = "held", !.dst = "held",
                            !.dstp = newVideoFrame2(d, f.n), !.pc = "buffer"],
            heap |-> h]
      [] f.pc = "buffer" ->
           LET m == vs_aligned_malloc(h, id, ok1) IN
           [f |-> IF m.p = Null THEN MallocFailure(f, "buffer")
                  ELSE [f EXCEPT !.buffer = m.p, !.pc = "blur"],
            heap |-> m.heap]
      [] f.pc = "blur" ->
           LET m == vs_aligned_malloc(h, id, ok1) IN
           [f |-> IF m.p = Null THEN MallocFailure(f, "blur")
                  ELSE [f EXCEPT !.blur = m.p, !.pc = AfterBlur(d)],
            heap |-> m.heap]
      [] f.pc = "gradient" ->
           LET m == vs_aligned_malloc(h, id, ok1) IN
           [f |-> IF m.p = Null THEN MallocFailure(f, "gradient")
                  ELSE [f EXCEPT !.gradient = m.p, !.pc = AfterGradient(d)],
            heap |-> m.heap]
      [] f.pc = "direction" ->
           LET m == vs_aligned_malloc(h, id, ok1) IN
           [f |-> IF m.p = Null THEN MallocFailure(f, "direction")
                  ELSE [f EXCEPT !.direction = m.p, !.pc = AfterDirection(d)],
            heap |-> m.heap]
      [] f.pc = "stack" ->
           LET m1 == vs_aligned_malloc(h, id, ok1)
               m2 == vs_aligned_malloc(m1.heap, id, ok2)
               g == [f EXCEPT !.map = m1.p, !.pos = m2.p]
           IN [f |-> IF m1.p = Null \/ m2.p = Null THEN MallocFailure(g, "stack")
                     ELSE [g EXCEPT !.pc = "process"],
               heap |-> m2.heap]
      [] f.pc = "process" ->
           [f |-> [f EXCEPT !.plane = NextPlane(d, 0),
                            !.pc = IF NextPlane(d, 0) >= d.format.numPlanes
                                   THEN "release" ELSE "blurVertical"],
            heap |-> h]
      [] f.pc \in {"blurVertical", "blurHorizontal", "detectEdge", "hysteresis",
                   "encode"} -> process(f, h, d)
      [] f.pc = "release" ->
           [f |-> [f EXCEPT !.src = "released", !.dst = "returned", !.ret = "dst",
                            !.pc = "returned"],
            heap |-> vs_aligned_free(vs_aligned_free(vs_aligned_free(
                       vs_aligned_free(vs_aligned_free(vs_aligned_free(h,
                         f.buffer), f.blur), f.gradient), f.direction), f.map), f.pos)]

\* The invocation run to its return on a heap of its own, no allocation failing.
RECURSIVE SoloRun(_, _, _)
SoloRun(f, h, d) ==
    IF f.pc = "returned" THEN f
    ELSE LET s == tcannyGetFrame(f, h, d, 1, TRUE, TRUE) IN SoloRun(s.f, s.heap, d)

(***************************************************************************)
(* The frame machine: a filter that tcannyCreate() returned, and            *)
(* MaxInvocations invocations of tcannyGetFrame() on it, invocation i for   *)
(* frame i, whose steps interleave in any order.                            *)
(***************************************************************************)
FrameArgs ==
    { Args(15, 10, 80, mode, 1, 500, f, planes) :
        mode \in -1 .. 3,
        f \in { Format("cmGray", "stInteger", 8, 1), Format("cmYUV", "stFloat", 32, 3) },
        planes \in { <<>>, <<1>>, <<2, 0>> } }

FrameInit ==
    /\ \E a \in FrameArgs :
         /\ tcannyCreate(a, TRUE).filter
         /\ cr = [pc |-> "returned", a |-> a, r |-> tcannyCreate(a, TRUE)]
    /\ fr = [i \in Invocations |-> NewInvocation(i)]
    /\ heap = EmptyHeap
    /\ hy = Idle /\ pl = Idle /\ bn = Idle

\* Invocation i takes its step at pc, with allocation results ok1 and ok2.
FrameAt(i, pc, ok1, ok2) ==
    /\ fr[i].pc = pc
    /\ LET s == tcannyGetFrame(fr[i], heap, cr.r.d, i, ok1, ok2) IN
         /\ fr' = [fr EXCEPT ![i] = s.f]
         /\ heap' = s.heap
    /\ UNCHANGED <<hy, cr, pl, bn>>

FrameStart == \E i \in Invocations : FrameAt(i, "idle", TRUE, TRUE)
FrameAllocBuffer == \E i \in Invocations, ok \in BOOLEAN : FrameAt(i, "buffer", ok, TRUE)
FrameAllocBlur == \E i \in Invocations, ok \in BOOLEAN : FrameAt(i, "blur", ok, TRUE)
FrameAllocGradient == \E i \in Invocations, ok \in BOOLEAN : FrameAt(i, "gradient", ok, TRUE)
FrameAllocDirection == \E i \in Invocations, ok \in BOOLEAN : FrameAt(i, "direction", ok, TRUE)
FrameAllocStack == \E i \in Invocations, ok1, ok2 \in BOOLEAN : FrameAt(i, "stack", ok1, ok2)
FrameProcess == \E i \in Invocations : FrameAt(i, "process", TRUE, TRUE)
FrameBlurVertical == \E i \in Invocations : FrameAt(i, "blurVertical", TRUE, TRUE)
FrameBlurHorizontal == \E i \in Invocations : FrameAt(i, "blurHorizontal", TRUE, TRUE)
FrameDetectEdge == \E i \in Invocations : FrameAt(i, "detectEdge", TRUE, TRUE)
FrameHysteresis == \E i \in Invocations : FrameAt(i, "hysteresis", TRUE, TRUE)
FrameEncode == \E i \in Invocations : FrameAt(i, "encode", TRUE, TRUE)
FrameRelease == \E i \in Invocations : FrameAt(i, "release", TRUE, TRUE)

FrameNext ==
    \/ FrameStart \/ FrameAllocBuffer \/ FrameAllocBlur \/ FrameAllocGradient
    \/ FrameAllocDirection \/ FrameAllocStack \/ FrameProcess
    \/ FrameBlurVertical \/ FrameBlurHorizontal \/ FrameDetectEdge
    \/ FrameHysteresis \/ FrameEncode \/ FrameRelease

SpecFrame == FrameInit /\ [][FrameNext]_vars

(***************************************************************************)
(* The sample-level stages of process<T>() on one plane of an integer       *)
(* format.  A blurred sample is kept as its numerator over den * den, den   *)
(* the denominator of the weights.  Memory past the end of an array is part *)
(* of the state: the source rows past the plane (srcBeyond) and the blur    *)
(* rows past height (blurBeyond) hold whatever the process has there.       *)
(***************************************************************************)
\* Lines 532-536: the window of row pointers at y = 0, as row numbers;
\* window[i + 1] is srcp[i].
InitWindow(radius) ==
    [i \in 1 .. 2 * radius + 1 |->
        IF i - 1 >= radius THEN i - 1 - radius ELSE radius - i]

\* Lines 550-555: the window after row y.
SlideWindow(window, y, height, radius) ==
    LET diameter == 2 * radius + 1
        last == window[diameter]
    IN [i \in 1 .. diameter |->
          IF i < diameter THEN window[i + 1]
          ELSE IF y < height - 1 - radius THEN last + 1
          ELSE IF y > height - 1 - radius THEN last - 1
          ELSE last]

\* srcp[i][x]: a sample of the plane, or what lies past its last row.
ReadRow(p, row, x) ==
    IF row \in 0 .. p.height - 1 THEN p.src[row, x] ELSE p.srcBeyond

\* Lines 539-546: the weighted column sums of the window, into buffer[0 .. width-1].
RECURSIVE ColumnSum(_, _, _)
ColumnSum(p, x, i) ==
    IF i > 2 * p.radius + 1 THEN 0
    ELSE ReadRow(p, p.window[i], x) * p.weights.num[i - 1 - p.radius]
         + ColumnSum(p, x, i + 1)

\* Lines 511-514: the halo of the row buffer, filled in the order of the loop.
RECURSIVE FillHalo(_, _, _, _)
FillHalo(buffer, i, width, radius) ==
    IF i > radius THEN buffer
    ELSE LET left == [buffer EXCEPT ![-i] = buffer[i - 1]]
             both == [left EXCEPT ![width - 1 + i] = left[width - i]]
         IN FillHalo(both, i + 1, width, radius)

RECURSIVE RowSum(_, _, _, _)
RowSum(buffer, weights, x, i) ==
    IF i > weights.radius THEN 0
    ELSE buffer[x + i] * weights.num[i] + RowSum(buffer, weights, x, i + 1)

\* Lines 510-524: the blurred row, from the row buffer.
gaussianBlurHorizontal(buffer, weights, width, radius) ==
    LET filled == FillHalo(buffer, 1, width, radius)
    IN [buffer |-> filled,
        blur |-> [x \in 0 .. width - 1 |-> RowSum(filled, weights, x, -radius)]]

\* Lines 538-557: row p.y of gaussianBlurVertical<T>.
gaussianBlurVertical(p) ==
    LET sums == [x \in -p.radius .. p.width - 1 + p.radius |->
                    IF x \in 0 .. p.width - 1 THEN ColumnSum(p, x, 1) ELSE p.buffer[x]]
        h == gaussianBlurHorizontal(sums, p.weights, p.width, p.radius)
    IN [p EXCEPT !.buffer = h.buffer,
                 !.blur = [c \in DOMAIN p.blur |->
                             IF c[1] = p.y /\ c[2] \in 0 .. p.width - 1
                             THEN h.blur[c[2]] ELSE p.blur[c]],
                 !.window = SlideWindow(p.window, p.y, p.height, p.radius),
                 !.y = p.y + 1]

\* Lines 604-605 and 608-609: the two halo samples of a blur row.
PadRow(blur, row, width) ==
    [blur EXCEPT ![row, -1] = blur[row, 0], ![row, width] = blur[row, width - 1]]

\* Lines 614-626: gx and gy at x from the rows pp, pr and pn of blur (srcpp,
\* srcp and srcpn), both doubled so that the halving of op 1 stays exact.
Gradient(b, pp, pr, pn, x, op) ==
    CASE op = 0 ->
           [gx |-> 2 * (b[pr, x + 1] - b[pr, x - 1]),
            gy |-> 2 * (b[pp, x] - b[pn, x])]
      [] op = 1 ->
           [gx |-> b[pp, x + 1] + b[pr, x + 1] + b[pn, x + 1]
                   - b[pp, x - 1] - b[pr, x - 1] - b[pn, x - 1],
            gy |-> b[pp, x - 1] + b[pp, x] + b[pp, x + 1]
                   - b[pn, x - 1] - b[pn, x] - b[pn, x + 1]]
      [] op = 2 ->
           [gx |-> 2 * (b[pp, x + 1] + 2 * b[pr, x + 1] + b[pn, x + 1]
                        - b[pp, x - 1] - 2 * b[pr, x - 1] - b[pn, x - 1]),
            gy |-> 2 * (b[pp, x - 1] + 2 * b[pp, x] + b[pp, x + 1]
                        - b[pn, x - 1] - 2 * b[pn, x] - b[pn, x + 1])]
      [] op = 3 ->
           [gx |-> 2 * (3 * b[pp, x + 1] + 10 * b[pr, x + 1] + 3 * b[pn, x + 1]
                        - 3 * b[pp, x - 1] - 10 * b[pr, x - 1] - 3 * b[pn, x - 1]),
            gy |-> 2 * (3 * b[pp, x - 1] + 10 * b[pp, x] + 3 * b[pp, x + 1]
                        - 3 * b[pn, x - 1] - 10 * b[pn, x] - 3 * b[pn, x + 1])]

\* Lines 631-634: atan2(gy, gx), moved up by pi when negative.  An angle is
\* kept as a vector <<dx, dy>> that points along it: atan2 lies in (-pi, pi]
\* and is negative exactly when gy < 0 (a difference of floats is never
\* -0), and adding pi turns the vector round.
Direction(g) ==
    IF g.gy < 0 THEN [dx |-> -g.gx, dy |-> -g.gy] ELSE [dx |-> g.gx, dy |-> g.gy]

\* Lines 607-644: row p.y of detectEdge(); the rows before the loop (lines
\* 600-605) are in p when y = 0.  gradient[y, x] stands for
\* sqrt(gx * gx + gy * gy) / 2, in units of 1 / (den * den).
detectEdge(p) ==
    LET first == IF p.y = 0 THEN PadRow(p.blur, p.srcp, p.width) ELSE p.blur
        b == PadRow(first, p.srcpn, p.width)
    IN [p EXCEPT !.blur = b,
                 !.gradient = [c \in DOMAIN p.gradient |->
                                 IF c[1] = p.y
                                 THEN Gradient(b, p.srcpp, p.srcp, p.srcpn, c[2], p.op)
                                 ELSE p.gradient[c]],
                 !.direction = [c \in DOMAIN p.direction |->
                                  IF c[1] = p.y /\ p.mode # 1
                                  THEN Direction(Gradient(b, p.srcpp, p.srcp, p.srcpn, c[2], p.op))
                                  ELSE p.direction[c]],
                 !.srcpp = p.srcp,
                 !.srcp = p.srcpn,
                 !.srcpn = IF p.y < p.height - 2 THEN p.srcpn + 1 ELSE p.srcpn,
                 !.y = p.y + 1]

CeilDiv(m, n) == (m + n - 1) \div n

\* Lines 94-98: getBin<int>(dir, 4) = int(dir * 4 / pi + 0.5), 4 folded to 0,
\* for an angle in [0, pi].  The bin changes at pi/8, 3pi/8, 5pi/8 and 7pi/8,
\* whose tangents are +-(sqrt(2) - 1) and +-(sqrt(2) + 1); no vector of
\* integers other than <<0, 0>> lies on one of these lines.
getBin4(dir) ==
    LET ax == IF dir.dx < 0 THEN -dir.dx ELSE dir.dx IN
    IF (dir.dy + ax) * (dir.dy + ax) <= 2 * ax * ax THEN 0
    ELSE IF dir.dy >= ax /\ (dir.dy - ax) * (dir.dy - ax) >= 2 * ax * ax THEN 2
    ELSE IF dir.dx > 0 THEN 1
    ELSE 3

\* Mutant of offsets: the two diagonals are exchanged.
offsetsSwapped == << <<0, 1>>, <<-1, -1>>, <<-1, 0>>, <<-1, 1>> >>

\* Line 649: offsets[], each as <<rows, columns>>.
offsets == << <<0, 1>>, <<-1, 1>>, <<-1, 0>>, <<-1, -1>> >>

\* sqrt(gx * gx + gy * gy) of line 628 is kept as the sum of the squares: the
\* code only compares magnitudes with each other and with the thresholds.
Magnitude(g) == g.gx * g.gx + g.gy * g.gy

\* Mutant of IsLocalMaximum: a tie with a neighbour suppresses the pixel.
IsLocalMaximumStrict(g, a, b) == g > Max(a, b)

\* Line 660: the test on a magnitude g and its two neighbours along the axis.
IsLocalMaximum(g, a, b) == g >= Max(a, b)

\* Line 666: the row that blur + blurStride points at after the loop.
LastRow(height) == Max(height - 2, 0) + 1

\* Lines 647-667: nonMaximumSuppression(); a kept cell holds Magnitude.
nonMaximumSuppression(p) ==
    LET G(c) == Magnitude(p.gradient[c])
        kept(c) ==
            LET o == offsets[getBin4(p.direction[c]) + 1]
                a == <<c[1] + o[1], c[2] + o[2]>>
                b == <<c[1] - o[1], c[2] - o[2]>>
            IN IF IsLocalMaximum(G(c), G(a), G(b)) THEN G(c) ELSE -FltMax
    IN [p EXCEPT !.blur =
          [c \in DOMAIN p.blur |->
              IF c[2] \notin 0 .. p.width - 1 THEN p.blur[c]
              ELSE IF c[1] = 0 \/ c[1] = LastRow(p.height) THEN -FltMax
              ELSE IF c[1] \in 1 .. p.height - 2
                   THEN (IF c[2] \in {0, p.width - 1} THEN -FltMax ELSE kept(c))
              ELSE p.blur[c]]]

\* A threshold t (d->t_h or d->t_l, in units of 1/2550) on the scale of
\* Magnitude: sqrt(G) / (2 * den * den) >= t / 2550 for every magnitude G
\* exactly when G >= SquaredThreshold(t, den).
SquaredThreshold(t, den) ==
    LET q == GCD(2550, 2 * den * den * t)
        A == 2550 \div q
        B == (2 * den * den * t) \div q
    IN IF t < 0 THEN -1 ELSE IF t = 0 THEN 0 ELSE CeilDiv(B * B, A * A)

\* Line 843: hysteresis() on rows 0 .. height-1 of blur.
hysteresisOfPlane(p) ==
    LET m == [c \in Cells(p.width, p.height) |-> p.blur[c]]
        r == HystRun(HystEntry(p.width, p.height, m,
                               SquaredThreshold(p.t_l, p.weights.den),
                               SquaredThreshold(p.t_h, p.weights.den), p.garbage))
    IN [p EXCEPT !.blur = [c \in DOMAIN p.blur |->
                             IF c \in Cells(p.width, p.height) THEN r.blur[c]
                             ELSE p.blur[c]]]

\* Lines 672-678: outputGB<T>; static_cast<int>(blur[x] + 0.5f) of a sample
\* that is not negative, then the clamp.
outputGB(p) ==
    LET den2 == p.weights.den * p.weights.den
    IN [c \in Cells(p.width, p.height) |->
          Min((2 * p.blur[c] + den2) \div (2 * den2), p.peak)]

\* Whether gradient * magnitude + 0.5 >= k, for a gradient cell g: with
\* magnitude = 2550 / gmmax (gmmax in tenths) this is
\* sqrt(gx * gx + gy * gy) * 2550 >= (2 * k - 1) * gmmax * den * den.
ReachesLevel(g, k, gmmax, den) ==
    LET q == GCD(2550, gmmax * den * den)
        A == 2550 \div q
        B == (gmmax * den * den) \div q
    IN k <= 0 \/ g.gx * g.gx + g.gy * g.gy >= CeilDiv(((2 * k - 1) * B) * ((2 * k - 1) * B), A * A)

\* static_cast<int>(gradient[x] * magnitude + 0.5f) when it lies in lo .. hi:
\* the largest k there that the sum reaches, found by bisection.
RECURSIVE Level(_, _, _, _, _)
Level(g, lo, hi, gmmax, den) ==
    IF lo >= hi THEN lo
    ELSE LET mid == (lo + hi + 1) \div 2 IN
         IF ReachesLevel(g, mid, gmmax, den) THEN Level(g, mid, hi, gmmax, den)
         ELSE Level(g, lo, mid - 1, gmmax, den)

\* Mutant of discretizeGM: the value is not clamped to peak.
discretizeGMUnclamped(p) ==
    [c \in Cells(p.width, p.height) |->
        Level(p.gradient[c], 0, 2 * p.peak, p.gmmax, p.weights.den)]

\* Lines 720-726: discretizeGM<T>.
discretizeGM(p) ==
    [c \in Cells(p.width, p.height) |->
        Min(Level(p.gradient[c], 0, p.peak + 1, p.gmmax, p.weights.den), p.peak)]

(***************************************************************************)
(* The plane machine: process<T>() on one plane, a row of the blur or of    *)
(* the edge detection per step, then for mode 0 non-maximum suppression and *)
(* hysteresis, then the encoder of the mode.                                *)
(***************************************************************************)
\* width and height of the planes.
PlaneShapes ==
    { <<1, 1>>, <<4, 1>>, <<4, 2>>, <<1, 3>>, <<2, 3>>, <<3, 3>>, <<4, 3>>,
      <<3, 6>>, <<6, 4>>, <<8, 8>> }

\* The shape on which every image of black and white samples is run.
DenseShape == <<3, 3>>

\* The left half 0 and the right half 255.
StepImage(width, height) ==
    [c \in Cells(width, height) |-> IF c[2] < width \div 2 THEN 0 ELSE UInt8Max]

\* The left half 255 and the right half 0.
StepDownImage(width, height) ==
    [c \in Cells(width, height) |-> IF c[2] < width \div 2 THEN UInt8Max ELSE 0]

PlaneImages(width, height) ==
    { [c \in Cells(width, height) |-> v] : v \in {0, 100, UInt8Max} }
        \cup { StepImage(width, height), StepDownImage(width, height) }

BinaryImages(width, height) == [Cells(width, height) -> {0, UInt8Max}]

\* What a read past the end of the plane or of the blur rows can return.
Beyond == {0, UInt8Max}

\* The state at the call of gaussianBlurVertical (line 835) for filter data d:
\* src the plane, beyondSrc and beyondBlur the samples in memory past the
\* plane and in the blur block (which malloc does not initialise).
PlaneEntry(d, width, height, src, beyondSrc, beyondBlur) ==
    LET den2 == d.weights.den * d.weights.den
    IN [pc |-> "gaussianBlur", width |-> width, height |-> height,
        mode |-> d.mode, op |-> d.op, gmmax |-> d.gmmax, peak |-> d.peak,
        t_h |-> d.t_h, t_l |-> d.t_l, sampleType |-> d.format.sampleType,
        lower |-> d.lower[0], upper |-> d.upper[0],
        radius |-> d.radius, weights |-> d.weights,
        src |-> src, srcBeyond |-> beyondSrc,
        window |-> InitWindow(d.radius),
        buffer |-> [x \in -d.radius .. width - 1 + d.radius |-> beyondBlur * d.weights.den],
        blur |-> [c \in (0 .. Max(height, 2) - 1) \X (-1 .. width) |-> beyondBlur * den2],
        gradient |-> [c \in Cells(width, height) |-> [gx |-> 0, gy |-> 0]],
        direction |-> [c \in Cells(width, height) |-> [dx |-> 0, dy |-> 0]],
        garbage |-> beyondBlur,
        dstp |-> <<>>, y |-> 0, srcpp |-> 0, srcp |-> 0, srcpn |-> 1]

\* Modes 2 and 3 and the float formats are not entered here.  Beyond
\* sigma 0.1, whose weights are 0, 1, 0, the squares of the gradients of an
\* image do not fit 32-bit integers, so the wider kernels are run
\* on the blur alone (mode -1).  t_l and t_h are the defaults, 1.0 and 8.0.
PlaneInit ==
    /\ \E s \in PlaneShapes, sigma \in Sigmas, mode \in {-1, 0, 1}, op \in 0 .. 3,
          gmmax \in {10, 500, 2550},
          f \in { Format("cmGray", "stInteger", 8, 1), Format("cmYUV", "stInteger", 10, 3) },
          bs, bb \in Beyond :
         \E src \in PlaneImages(s[1], s[2])
                       \cup (IF s = DenseShape /\ mode = 0
                             THEN BinaryImages(s[1], s[2]) ELSE {}) :
            /\ mode # -1 => sigma = 1
            /\ mode = -1 => op = 1 /\ gmmax = 500
            /\ mode = 0 => gmmax = 500
            /\ src \notin PlaneImages(s[1], s[2]) =>
                  f.bitsPerSample = 8 /\ bs = 0 /\ bb = 0
            /\ pl = PlaneEntry(tcannyCreate(Args(sigma, 10, 80, mode, op, gmmax, f, <<>>), TRUE).d,
                               s[1], s[2], src, bs, bb)
    /\ hy = Idle /\ cr = Idle /\ fr = Idle /\ heap = Idle /\ bn = Idle

PlaneOthers == UNCHANGED <<hy, cr, fr, heap, bn>>

\* A row of gaussianBlurVertical; after the last one, line 838.
PlaneBlurRow ==
    /\ pl.pc = "gaussianBlur"
    /\ LET p == gaussianBlurVertical(pl) IN
         pl' = IF p.y < p.height THEN p
               ELSE [p EXCEPT !.y = 0,
                              !.pc = IF p.mode # -1 THEN "detectEdge" ELSE "encode"]
    /\ PlaneOthers

\* A row of detectEdge.
PlaneDetectRow ==
    /\ pl.pc = "detectEdge"
    /\ LET p == detectEdge(pl) IN
         pl' = IF p.y < p.height THEN p
               ELSE [p EXCEPT !.y = 0,
                              !.pc = IF p.mode % 2 = 0 THEN "nonMaximumSuppression"
                                     ELSE "encode"]
    /\ PlaneOthers

\* Line 842.
PlaneSuppress ==
    /\ pl.pc = "nonMaximumSuppression"
    /\ pl' = [nonMaximumSuppression(pl) EXCEPT !.pc = "hysteresis"]
    /\ PlaneOthers

\* Line 843.
PlaneHysteresis ==
    /\ pl.pc = "hysteresis"
    /\ pl' = [hysteresisOfPlane(pl) EXCEPT !.pc = "encode"]
    /\ PlaneOthers

\* Lines 854-859: the encoder of modes -1, 0 and 1.
PlaneEncode ==
    /\ pl.pc = "encode"
    /\ pl' = [pl EXCEPT !.pc = "done",
                        !.dstp = IF pl.mode = -1 THEN outputGB(pl)
                                 ELSE IF pl.mode = 0
                                 THEN binarizeCE(pl.blur, pl.width, pl.height, pl.sampleType,
                                                 pl.peak, pl.lower, pl.upper)
                                 ELSE discretizeGM(pl)]
    /\ PlaneOthers

PlaneNext ==
    \/ PlaneBlurRow \/ PlaneDetectRow \/ PlaneSuppress \/ PlaneHysteresis
    \/ PlaneEncode

SpecPlane == PlaneInit /\ [][PlaneNext]_vars

(***************************************************************************)
(* The bin machine: getBin() on one stored direction, called with 4 bins by *)
(* nonMaximumSuppression() and with d->bins by the encoders of modes 2 and  *)
(* 3.  Here a direction is the angle num * pi / den, and a float sample is  *)
(* the fraction num / den.                                                  *)
(***************************************************************************)
\* Largest denominator of a drawn angle.
MaxAngleDen == 12

Ratio(num, den) == [num |-> num, den |-> den]

\* The angles num * pi / den in [0, pi]; pi itself is stored by detectEdge()
\* for gy = 0 and gx < 0.
Directions ==
    { Ratio(a[1], a[2]) : a \in { b \in (0 .. MaxAngleDen) \X (1 .. MaxAngleDen) : b[1] <= b[2] } }

\* Lines 94-98: getBin<T> for the integer types.
getBin(dir, n) ==
    LET bin == (2 * dir.num * n + dir.den) \div (2 * dir.den)
    IN IF bin >= n THEN 0 ELSE bin

\* Lines 100-104: getBin<float>; bin = dir / pi.
getBinFloat(dir, n) ==
    IF dir.num > n * dir.den THEN Ratio(0, 1) ELSE Ratio(dir.num, dir.den)

\* The float value v - offset, offset in halves.
MinusOffset(v, offset) == Ratio(2 * v.num - offset * v.den, 2 * v.den)

\* What getBin returns for pixel b, as a fraction for every sample type.
BinOf(b, n) ==
    IF b.sampleType = "stInteger" THEN Ratio(getBin(b.dir, n), 1)
    ELSE getBinFloat(b.dir, n)

\* Lines 776 and 789: one pixel of discretizeDM_T.
discretizeDM_T(b) ==
    IF b.sampleType = "stInteger"
    THEN (IF b.blur = FltMax THEN BinOf(b, b.bins) ELSE Ratio(0, 1))
    ELSE (IF b.blur = FltMax THEN MinusOffset(BinOf(b, b.bins), b.offset)
          ELSE Ratio(b.lower, 2))

\* Lines 802 and 813: one pixel of discretizeDM.
discretizeDM(b) ==
    IF b.sampleType = "stInteger" THEN BinOf(b, b.bins)
    ELSE MinusOffset(BinOf(b, b.bins), b.offset)

BinFormats ==
    { Format("cmGray", "stInteger", 8, 1), Format("cmYUV", "stInteger", 10, 3),
      Format("cmYUV", "stInteger", 16, 3), Format("cmGray", "stFloat", 32, 1),
      Format("cmYUV", "stFloat", 32, 3) }

\* A pixel with its stored direction and its cell of the map, in a plane of
\* format f; in mode 0 the caller is nonMaximumSuppression().
BinInit ==
    /\ \E dir \in Directions, f \in BinFormats, mode \in {0, 2, 3}, edge \in BOOLEAN :
         \E plane \in 0 .. f.numPlanes - 1 :
            /\ mode = 0 => plane = 0 /\ edge
            /\ mode = 3 => edge
            /\ bn = [pc |-> "start", dir |-> dir, mode |-> mode,
                     sampleType |-> f.sampleType, bins |-> BinsOf(f),
                     offset |-> OffsetOf(f, plane), lower |-> LowerOf(f, plane),
                     blur |-> IF edge THEN FltMax ELSE -FltMax,
                     n |-> 0, bin |-> Ratio(0, 1), dstp |-> Ratio(0, 1)]
    /\ hy = Idle /\ cr = Idle /\ fr = Idle /\ heap = Idle /\ pl = Idle

BinOthers == UNCHANGED <<hy, cr, fr, heap, pl>>

\* Line 659: getBin<int>(direction[x], 4).
BinSuppress ==
    /\ bn.pc = "start" /\ bn.mode = 0
    /\ bn' = [bn EXCEPT !.pc = "done", !.n = 4, !.bin = Ratio(getBin(bn.dir, 4), 1)]
    /\ BinOthers

\* Line 862: discretizeDM_T, mode 2.
BinThinned ==
    /\ bn.pc = "start" /\ bn.mode = 2
    /\ bn' = [bn EXCEPT !.pc = "done", !.n = bn.bins, !.bin = BinOf(bn, bn.bins),
                        !.dstp = discretizeDM_T(bn)]
    /\ BinOthers

\* Line 864: discretizeDM, mode 3.
BinDirection ==
    /\ bn.pc = "start" /\ bn.mode = 3
    /\ bn' = [bn EXCEPT !.pc = "done", !.n = bn.bins, !.bin = BinOf(bn, bn.bins),
                        !.dstp = discretizeDM(bn)]
    /\ BinOthers

BinNext == BinSuppress \/ BinThinned \/ BinDirection

SpecBin == BinInit /\ [][BinNext]_vars

(***************************************************************************)
(* Claims on hysteresis() and binarizeCE(), checked under SpecHyst.         *)
(***************************************************************************)
Adjacent(c, d) ==
    /\ c # d
    /\ c[1] - d[1] \in -1 .. 1
    /\ c[2] - d[2] \in -1 .. 1

\* Cells at or above t_l, and interior cells at or above t_h, before the pass.
WeakCells(h) == { c \in Cells(h.width, h.height) : h.pre[c] >= h.t_l }
StrongCells(h) == { c \in InteriorCells(h.width, h.height) : h.pre[c] >= h.t_h }

\* The cells joined to S by 8-connected chains of weak cells.
RECURSIVE ChainClosure(_, _)
ChainClosure(h, S) ==
    LET N == S \cup { c \in WeakCells(h) : \E d \in S : Adjacent(c, d) }
    IN IF N = S THEN S ELSE ChainClosure(h, N)

Linked(h) == ChainClosure(h, StrongCells(h))

\* The cells holding the confirmed sentinel.
ConfirmedCells(h) == { c \in Cells(h.width, h.height) : h.blur[c] = FltMax }

\* C1: after hysteresis a pixel holds the confirmed sentinel if and only if an
\* 8-connected chain of pixels at or above t_l (pre-hysteresis values) joins it
\* to an interior pixel at or above t_h.
C1_ConfirmedIffLinked ==
    hy.pc \in {"done", "encoded"} => ConfirmedCells(hy) = Linked(hy)

\* A finished pass that confirmed a pixel below t_h none of whose neighbours
\* is at or above t_h: only a chain through another weak pixel reaches it.
C1_Witness ==
    /\ hy.pc = "done"
    /\ \E c \in ConfirmedCells(hy) :
         /\ hy.pre[c] < hy.t_h
         /\ \A d \in StrongCells(hy) : ~Adjacent(c, d)

\* The confirmed set of a fresh pass over the same map with other thresholds.
ConfirmedWith(h, t_l, t_h) ==
    ConfirmedCells(HystRun(HystEntry(h.width, h.height, h.pre, t_l, t_h, 0)))

\* C8: on the same suppressed map, raising t_h with t_l fixed, or raising t_l
\* with t_h fixed (still t_l < t_h), yields a subset of the confirmed set.
C8_Monotone ==
    hy.pc = "done" =>
        \A t \in Thresholds :
            (\/ t[1] = hy.t_l /\ t[2] > hy.t_h
             \/ t[2] = hy.t_h /\ t[1] > hy.t_l)
            => ConfirmedWith(hy, t[1], t[2]) \subseteq ConfirmedCells(hy)

\* A finished pass whose confirmed set really shrinks when t_h is raised, and
\* shrinks without vanishing when t_l is raised.
C8_Witness ==
    /\ hy.pc = "done"
    /\ \E t \in Thresholds :
         /\ t[1] = hy.t_l /\ t[2] > hy.t_h
         /\ ConfirmedWith(hy, t[1], t[2]) # ConfirmedCells(hy)
    /\ \E t \in Thresholds :
         /\ t[2] = hy.t_h /\ t[1] > hy.t_l
         /\ ConfirmedWith(hy, t[1], t[2]) # {}
         /\ ConfirmedWith(hy, t[1], t[2]) # ConfirmedCells(hy)

\* The two values a mode 0 sample may take, stated from the format: for an
\* integer depth 0 and 2^bits - 1; for float, in halves, 0 and 1.0 on plane 0
\* and on RGB planes, -0.5 and 0.5 on chroma planes.
EdgeValue(f, p) ==
    IF f.sampleType = "stInteger" THEN 2 ^ f.bitsPerSample - 1
    ELSE IF p = 0 \/ f.colorFamily = "cmRGB" THEN 2 ELSE 1

NoEdgeValue(f, p) ==
    IF f.sampleType = "stInteger" THEN 0
    ELSE IF p = 0 \/ f.colorFamily = "cmRGB" THEN 0 ELSE -1

\* C4: in mode 0 every output sample is the peak (float: upper) where the pixel
\* was confirmed by hysteresis, and 0 (float: lower) everywhere else.
C4_BinaryOutput ==
    hy.pc = "encoded" =>
        \A c \in Cells(hy.width, hy.height) :
            hy.dstp[c] = IF c \in Linked(hy)
                           THEN EdgeValue(hy.format, hy.plane)
                           ELSE NoEdgeValue(hy.format, hy.plane)

\* An encoded plane with a confirmed pixel and an unconfirmed pixel that
\* still holds a magnitude.
C4_Witness ==
    /\ hy.pc = "encoded"
    /\ \E c \in Cells(hy.width, hy.height) :
         hy.dstp[c] = EdgeValue(hy.format, hy.plane)
    /\ \E c \in Cells(hy.width, hy.height) :
         /\ hy.pre[c] >= 0
         /\ hy.dstp[c] = NoEdgeValue(hy.format, hy.plane)

\* C17 as stated: after hysteresis every cell of the map holds the confirmed
\* or the suppressed sentinel, and nothing else.
C17_OnlySentinels ==
    hy.pc \in {"done", "encoded"} =>
        \A c \in Cells(hy.width, hy.height) : hy.blur[c] \in {FltMax, -FltMax}

\* C17, amended: after hysteresis a cell holds the confirmed sentinel exactly
\* when the pixel belongs to an edge; every other cell holds what it held
\* before the pass, the suppressed sentinel or a magnitude below t_h.
C17_ConfirmedOrUntouched ==
    hy.pc \in {"done", "encoded"} =>
        \A c \in Cells(hy.width, hy.height) :
            IF c \in Linked(hy) THEN hy.blur[c] = FltMax
            ELSE /\ hy.blur[c] = hy.pre[c]
                 /\ hy.pre[c] = -FltMax \/ hy.pre[c] < hy.t_h

\* A finished pass with a confirmed pixel and a pixel left with its magnitude.
C17_Witness ==
    /\ hy.pc = "done"
    /\ ConfirmedCells(hy) # {}
    /\ \E c \in Cells(hy.width, hy.height) :
         hy.blur[c] \notin {FltMax, -FltMax} /\ hy.blur[c] = hy.pre[c]

\* The cell <<y, x>> of a stack entry <<x, y>>.
CellOf(e) == <<e[2], e[1]>>

StackCells(h) == { CellOf(h.pos[k]) : k \in 1 .. Len(h.pos) }
MarkedCells(h) == { c \in Cells(h.width, h.height) : h.map[c] # 0 }

\* From the memset on: index is that of the last entry and within the
\* array, no pixel is on the stack twice, and every pixel on it is marked.
StackWithinMarks ==
    hy.pc \in {"scan", "drain", "done", "encoded"} =>
        /\ hy.index = Len(hy.pos) - 1
        /\ hy.index \in -1 .. hy.width * hy.height - 1
        /\ \A j, k \in 1 .. Len(hy.pos) : j # k => hy.pos[j] # hy.pos[k]
        /\ StackCells(hy) \subseteq MarkedCells(hy)

\* A step of the pass: the memset leaves the mask all zero; afterwards no
\* mark is cleared, the stack loses at most its top entry (a pop), and every
\* entry pushed is a pixel that was not marked before and is marked after,
\* so that a marked pixel is never pushed, hence never popped, again.
MarkThenPushOnce ==
    LET base == IF HystBranch(hy) = "pop" THEN Len(hy.pos) - 1 ELSE Len(hy.pos)
    IN /\ HystBranch(hy) = "memset" => MarkedCells(hy') = {}
       /\ hy.pc \in {"scan", "drain"} =>
            /\ MarkedCells(hy) \subseteq MarkedCells(hy')
            /\ Len(hy'.pos) >= base
            /\ SubSeq(hy'.pos, 1, base) = SubSeq(hy.pos, 1, base)
            /\ \A k \in base + 1 .. Len(hy'.pos) :
                 /\ hy.map[CellOf(hy'.pos[k])] = 0
                 /\ hy'.map[CellOf(hy'.pos[k])] = UInt8Max

\* With t_l above -FLT_MAX (SpecHyst): in every state of a pass the mask is
\* zero at the start, a pixel is marked when it is pushed and never unmarked,
\* pushed and popped at most once, the stack is a subset of the marked
\* pixels, and index stays in [-1, width * height - 1].
C18_StackDiscipline == [](StackWithinMarks) /\ [][MarkThenPushOnce]_vars

\* Two pixels on the stack while a pixel popped earlier stays marked.
C18_Witness ==
    /\ hy.pc = "drain" /\ hy.index >= 1
    /\ MarkedCells(hy) \ StackCells(hy) # {}

C19_Witness ==
    /\ hy.pc = "done" /\ hy.index = -1
    /\ Cardinality(ConfirmedCells(hy)) >= 2

(***************************************************************************)
(* Claims on tcannyCreate(), checked under SpecCreate.                      *)
(***************************************************************************)
\* The conditions the specification lists for a successful construction.
SupportedFormat(f) ==
    /\ f.constant
    /\ \/ f.sampleType = "stInteger" /\ f.bitsPerSample \in 8 .. 16
       \/ f.sampleType = "stFloat" /\ f.bitsPerSample = 32

PlanesInRangeOnce(planes, numPlanes) ==
    /\ \A i \in 1 .. Len(planes) : planes[i] \in 0 .. numPlanes - 1
    /\ \A i, j \in 1 .. Len(planes) : i # j => planes[i] # planes[j]

ValidArgs(a) ==
    /\ a.sigma > 0
    /\ a.t_l < a.t_h
    /\ a.mode \in -1 .. 3
    /\ a.op \in 0 .. 3
    /\ a.gmmax >= 10
    /\ SupportedFormat(a.format)
    /\ PlanesInRangeOnce(a.planes, a.format.numPlanes)

\* What C2 says of every construction but the order of the checks: a filter
\* only for valid arguments; otherwise an error, no filter, no weight table
\* and no clip node kept; valid arguments fail only on the weight allocation.
C2_Outcome ==
    /\ cr.r.filter => ValidArgs(cr.a) /\ cr.r.error = ""
    /\ ~ValidArgs(cr.a) =>
          /\ cr.r.error # "" /\ cr.r.error # ErrWeights
          /\ ~cr.r.filter /\ cr.r.d = Unset
          /\ cr.r.weights = "none"
          /\ cr.r.node \in {"none", "freed"}
    /\ ValidArgs(cr.a) /\ ~cr.r.filter =>
          /\ cr.r.error = ErrWeights
          /\ cr.r.weights = "none" /\ cr.r.node = "freed"

\* C2 as stated: the outcome above, and t_l >= t_h always yields the
\* threshold-ordering error.
C2_ThresholdErrorAlways ==
    cr.pc = "returned" =>
        /\ C2_Outcome
        /\ cr.a.t_l >= cr.a.t_h => ~cr.r.filter /\ cr.r.error = ErrThreshold

\* C2, amended: tcannyCreate() creates a filter only for valid arguments; for
\* any other arguments it sets an error, creates no filter, allocates no
\* weight table and does not keep the clip node; t_l >= t_h never creates a
\* filter, and reports the threshold-ordering error when sigma > 0 (the sigma
\* check of line 996 precedes it and reports first when sigma <= 0).
C2_CreateOnlyWhenValid ==
    cr.pc = "returned" =>
        /\ C2_Outcome
        /\ cr.a.t_l >= cr.a.t_h =>
              /\ ~cr.r.filter /\ cr.r.node = "none"
              /\ cr.r.error = IF cr.a.sigma > 0 THEN ErrThreshold ELSE ErrSigma

\* A construction refused for its thresholds, with every other argument valid.
C2_Witness ==
    /\ cr.pc = "returned"
    /\ cr.a.t_l >= cr.a.t_h
    /\ ValidArgs([cr.a EXCEPT !.t_l = cr.a.t_h - 1])
    /\ cr.r.error = ErrThreshold /\ ~cr.r.filter

(***************************************************************************)
(* Claims on tcannyGetFrame() and process(), checked under SpecFrame.       *)
(***************************************************************************)
\* The scratch blocks invocation i holds, and the pointers in its locals.
HeldBy(i) == { p \in heap.alloc : heap.owner[p] = i }
Pointers(f) == {f.buffer, f.blur, f.gradient, f.direction, f.map, f.pos} \ {Null}

\* C3: when an invocation returns, the source frame and every scratch block
\* it allocated are released; it returns nullptr with an error set and the
\* destination released if an allocation failed, and otherwise only dst.
C3_AllReleasedOnReturn ==
    \A i \in Invocations :
        fr[i].pc = "returned" =>
            /\ fr[i].src = "released"
            /\ HeldBy(i) = {}
            /\ fr[i].ret = "nullptr" => fr[i].error # "" /\ fr[i].dst = "released"
            /\ fr[i].ret = "dst" => fr[i].error = "" /\ fr[i].dst = "returned"

\* The planes the arguments select: those supplied, or all when none is.
Selected(a) ==
    IF Len(a.planes) = 0 THEN 0 .. a.format.numPlanes - 1
    ELSE { a.planes[k] : k \in 1 .. Len(a.planes) }

EncoderOf(mode) ==
    CASE mode = -1 -> "outputGB" [] mode = 0 -> "binarizeCE"
      [] mode = 1 -> "discretizeGM" [] mode = 2 -> "discretizeDM_T"
      [] mode = 3 -> "discretizeDM"

\* C6: the planes processed are exactly the selected ones; a plane that is
\* not selected is the source plane in dst from newVideoFrame2 on, and a
\* selected plane of the returned frame is the mode's encoder output
\* computed from that plane of the source alone.
C6_PlaneSelection ==
    \A i \in Invocations :
        fr[i].dst \in {"held", "returned"} =>
            /\ { p \in 0 .. cr.a.format.numPlanes - 1 : cr.r.d.process[p] } = Selected(cr.a)
            /\ \A p \in 0 .. cr.a.format.numPlanes - 1 :
                 /\ p \notin Selected(cr.a) => fr[i].dstp[p] = SrcPlane(fr[i].n, p)
                 /\ p \in Selected(cr.a) =>
                      \/ fr[i].dstp[p] = Uninit /\ fr[i].pc # "returned"
                      \/ /\ fr[i].dstp[p].origin = {<<fr[i].n, p>>}
                         /\ fr[i].dstp[p].stages[Len(fr[i].dstp[p].stages)]
                              = EncoderOf(cr.a.mode)

\* A returned frame with planes 2 and 0 processed and plane 1 copied.
C6_Witness ==
    \E i \in Invocations :
        /\ fr[i].pc = "returned" /\ fr[i].ret = "dst"
        /\ cr.a.planes = <<2, 0>>
        /\ fr[i].dstp[1] = SrcPlane(fr[i].n, 1)
        /\ fr[i].dstp[0].origin = {<<fr[i].n, 0>>}
        /\ fr[i].dstp[2].origin = {<<fr[i].n, 2>>}

Running(i) == fr[i].pc \notin {"idle", "returned"}

C7_OwnScratchOwnOutput ==
    /\ \A i \in Invocations :
         Running(i) => Pointers(fr[i]) \subseteq HeldBy(i)
    /\ \A i, j \in Invocations :
         i # j /\ Running(i) /\ Running(j) =>
            Pointers(fr[i]) \cap Pointers(fr[j]) = {}
    /\ \A i \in Invocations :
         fr[i].pc = "returned" /\ fr[i].ret = "dst" =>
            fr[i].dstp = SoloRun(NewInvocation(fr[i].n), EmptyHeap, cr.r.d).dstp

\* C7: under every interleaving an invocation's pointers are blocks it
\* allocated and shares with no other invocation, its returned frame is what
\* it returns when it runs alone, and no step writes the instance data.
C7_Interleaving == [](C7_OwnScratchOwnOutput) /\ [][cr' = cr]_vars

\* Two invocations past their blur stages at once, each on scratch of its own.
C7_Witness ==
    /\ fr[1].pc = "encode" /\ fr[2].pc = "encode"
    /\ heap.mem[fr[1].blur].origin = {<<fr[1].n, fr[1].plane>>}
    /\ heap.mem[fr[2].blur].origin = {<<fr[2].n, fr[2].plane>>}

\* The histories the claim gives the buffers of plane p of frame n: the
\* blurred plane, the gradient (and the direction) estimated from it, and the
\* map that suppression and hysteresis make of gradient and direction.
BlurredPlane(n, p) ==
    Content(<<"gaussianBlurVertical", "gaussianBlurHorizontal">>, {<<n, p>>})

EdgesOf(n, p) == Stage(BlurredPlane(n, p), "detectEdge")

MapOf(n, p) ==
    Content(EdgesOf(n, p).stages \o EdgesOf(n, p).stages
              \o <<"nonMaximumSuppression", "hysteresis">>, {<<n, p>>})

\* What the encoder of the mode is given.
EncodedFrom(mode, n, p) ==
    CASE mode = -1 -> BlurredPlane(n, p)
      [] mode = 0 -> MapOf(n, p)
      [] mode = 1 -> EdgesOf(n, p)
      [] mode = 2 -> Content(MapOf(n, p).stages \o EdgesOf(n, p).stages, {<<n, p>>})
      [] mode = 3 -> EdgesOf(n, p)

\* The stages of one plane in the order the claim gives them; suppression and
\* hysteresis are the one step "hysteresis" of the frame machine.
StageOrder(mode) ==
    <<"blurVertical", "blurHorizontal">>
      \o (IF mode # -1 THEN <<"detectEdge">> ELSE <<>>)
      \o (IF mode \in {0, 2} THEN <<"hysteresis">> ELSE <<>>)
      \o <<"encode">>

StagePcs == {"blurVertical", "blurHorizontal", "detectEdge", "hysteresis", "encode"}

\* A step of invocation i out of a stage goes to the next stage of the order,
\* and out of the encoder to the first stage of another plane or to the end.
InStageOrder(i) ==
    LET order == StageOrder(cr.r.d.mode)
        at == { k \in 1 .. Len(order) : order[k] = fr[i].pc }
    IN fr[i].pc \in StagePcs /\ fr'[i].pc # fr[i].pc =>
          /\ at # {}
          /\ \A k \in at :
                IF k < Len(order) THEN fr'[i].pc = order[k + 1]
                ELSE fr'[i].pc \in {"blurVertical", "release"}

\* The block at pointer q is held by invocation i and holds c.
Holds(i, q, c) == q # Null /\ q \in HeldBy(i) /\ heap.mem[q] = c

\* What each stage is about to read was allocated by this invocation and
\* written by the stages before it on the same plane of the same frame.
StageInputsReady(i) ==
    LET f == fr[i]
        mode == cr.r.d.mode
    IN /\ f.pc = "blurHorizontal" =>
            Holds(i, f.buffer, Stage(SrcPlane(f.n, f.plane), "gaussianBlurVertical"))
       /\ f.pc = "detectEdge" =>
            /\ Holds(i, f.blur, BlurredPlane(f.n, f.plane))
            /\ f.gradient # Null /\ f.gradient \in HeldBy(i)
            /\ mode # 1 => f.direction # Null /\ f.direction \in HeldBy(i)
       /\ f.pc = "hysteresis" =>
            /\ Holds(i, f.gradient, EdgesOf(f.n, f.plane))
            /\ Holds(i, f.direction, EdgesOf(f.n, f.plane))
            /\ f.map # Null /\ f.map \in HeldBy(i)
            /\ f.pos # Null /\ f.pos \in HeldBy(i)
       /\ f.pc = "encode" =>
            /\ mode \in {-1, 0, 2} =>
                  Holds(i, f.blur, IF mode = -1 THEN BlurredPlane(f.n, f.plane)
                                   ELSE MapOf(f.n, f.plane))
            /\ mode = 1 => Holds(i, f.gradient, EdgesOf(f.n, f.plane))
            /\ mode \in {2, 3} => Holds(i, f.direction, EdgesOf(f.n, f.plane))

\* Every plane written so far is the mode's encoder applied to the buffers
\* the stages of that plane made.
EncodedInOrder(i) ==
    \A p \in DOMAIN fr[i].dstp :
        cr.r.d.process[p] /\ fr[i].dstp[p] # Uninit =>
            fr[i].dstp[p] = Stage(EncodedFrom(cr.r.d.mode, fr[i].n, p),
                                  EncoderOf(cr.r.d.mode))

\* C24: for every mode the stages of a plane run in the order blur, gradient
\* estimation (iff mode # -1), non-maximum suppression and hysteresis (iff
\* mode is 0 or 2), encoder; every buffer a stage or the encoder reads was
\* allocated in this invocation and written by an earlier stage of the same
\* plane; in mode -1 the encoder reads the blur as the blur stage left it.
C24_StagesInOrder ==
    /\ [](\A i \in Invocations : StageInputsReady(i) /\ EncodedInOrder(i))
    /\ [][\A i \in Invocations : InStageOrder(i)]_vars

\* A returned frame of mode 2 whose second processed plane went through every
\* stage, while the other invocation is at its own hysteresis.
C24_Witness ==
    \E i, j \in Invocations :
        /\ fr[i].pc = "returned" /\ fr[i].ret = "dst"
        /\ cr.r.d.mode = 2 /\ cr.a.planes = <<2, 0>>
        /\ fr[i].dstp[2] = Stage(EncodedFrom(2, fr[i].n, 2), "discretizeDM_T")
        /\ fr[j].pc = "hysteresis"

(***************************************************************************)
(* Claims on the blur, the edge detection and discretizeGM(), checked       *)
(* under SpecPlane.                                                         *)
(***************************************************************************)
PlaneCells == Cells(pl.width, pl.height)

\* The gradient cell g, run through round(magnitude * 255 / gmmax), gives v:
\* v - 1/2 <= magnitude * 255 / gmmax < v + 1/2.
RoundsTo(g, v) ==
    /\ ReachesLevel(g, v, pl.gmmax, pl.weights.den)
    /\ ~ReachesLevel(g, v + 1, pl.gmmax, pl.weights.den)

IsStepScene ==
    /\ pl.src = StepImage(pl.width, pl.height)
    /\ pl.width >= 2 /\ pl.height >= 2
    /\ pl.gmmax = 500 /\ pl.peak = UInt8Max

\* C5: in mode 1 every output sample is min(round(magnitude * 255 / gmmax),
\* peak): never above the peak, the rounded value below it, and the peak
\* itself from peak - 1/2 on; on the 0/255 step image with gmmax 50 at 8 bits
\* the two columns at the step are 255 and the other columns are 0.
C5_RoundedAndClamped ==
    pl.pc = "done" /\ pl.mode = 1 =>
        /\ \A c \in PlaneCells :
             /\ pl.dstp[c] \in 0 .. pl.peak
             /\ pl.dstp[c] < pl.peak => RoundsTo(pl.gradient[c], pl.dstp[c])
             /\ pl.dstp[c] = pl.peak =>
                  ReachesLevel(pl.gradient[c], pl.peak, pl.gmmax, pl.weights.den)
        /\ IsStepScene =>
             \A c \in PlaneCells :
                pl.dstp[c] = IF c[2] \in {pl.width \div 2 - 1, pl.width \div 2}
                             THEN UInt8Max ELSE 0

\* The step image of width 4 encoded: saturated at the step, 0 beside it.
C5_Witness ==
    /\ pl.pc = "done" /\ pl.mode = 1 /\ IsStepScene /\ pl.width = 4 /\ pl.op = 1
    /\ pl.dstp[1, 2] = UInt8Max /\ pl.dstp[1, 1] = UInt8Max
    /\ pl.dstp[1, 0] = 0 /\ pl.dstp[1, 3] = 0
    /\ pl.gradient[1, 2].gx = 3 * UInt8Max

IsConstant(f, cells) == \A b, c \in cells : f[b] = f[c]

\* The blur is complete and nonMaximumSuppression() has not yet reused it.
BlurDone ==
    \/ pl.pc \in {"detectEdge", "nonMaximumSuppression"}
    \/ pl.pc \in {"encode", "done"} /\ pl.mode \in {-1, 1}

\* detectEdge() has returned.
EdgesDone ==
    \/ pl.pc \in {"nonMaximumSuppression", "hysteresis"}
    \/ pl.pc \in {"encode", "done"} /\ pl.mode # -1

\* C9: the blur of a plane whose samples all equal c is c at every pixel,
\* for every sigma and every plane size.
C9_ConstantBlur ==
    BlurDone /\ IsConstant(pl.src, PlaneCells) =>
        \A c \in PlaneCells : pl.blur[c] = pl.src[c] * pl.weights.den * pl.weights.den

\* C10: the gradient magnitude of a constant blurred plane is 0 at every
\* pixel, for every op and every plane size.
C10_ZeroGradient ==
    EdgesDone /\ BlurDone /\ IsConstant(pl.blur, PlaneCells) =>
        \A c \in PlaneCells : pl.gradient[c].gx = 0 /\ pl.gradient[c].gy = 0

\* Scenario A: the 8x8 plane of 8-bit samples, all 100.
IsFlatScene ==
    /\ pl.width = 8 /\ pl.height = 8 /\ pl.peak = UInt8Max
    /\ \A c \in PlaneCells : pl.src[c] = 100

\* C11: on the 8x8 plane whose samples are all 100, for every sigma and every
\* op, mode 0 gives 0 at every pixel and mode -1 gives 100 at every pixel.
C11_FlatScene ==
    pl.pc = "done" /\ IsFlatScene =>
        /\ pl.mode = 0 => \A c \in PlaneCells : pl.dstp[c] = 0
        /\ pl.mode = -1 => \A c \in PlaneCells : pl.dstp[c] = 100

\* The pixels that are not on the border of the plane.
PlaneInterior == InteriorCells(pl.width, pl.height)

\* The two columns on either side of the step.
StepColumns == {pl.width \div 2 - 1, pl.width \div 2}

\* C12: on the step image (left half 0, right half 255) with sigma 0.1 and
\* the default thresholds, mode 0 gives the peak only at the step, where both
\* columns beside it carry the same magnitude, and 0 at every other pixel;
\* every interior pixel of the two columns is an edge.
C12_StepScene ==
    pl.pc = "done" /\ pl.mode = 0 /\ pl.radius = 1 /\ pl.width >= 2
      /\ pl.src = StepImage(pl.width, pl.height) =>
        \A c \in PlaneCells :
            pl.dstp[c] = IF c \in PlaneInterior /\ c[2] \in StepColumns
                         THEN pl.peak ELSE 0

\* The 6x4 step image at 8 bits with the default op: 255 in the two interior
\* rows of columns 2 and 3, and 0 beside, above and below them.
C12_Witness ==
    /\ pl.pc = "done" /\ pl.mode = 0 /\ pl.op = 1 /\ pl.peak = UInt8Max
    /\ pl.width = 6 /\ pl.height = 4 /\ pl.src = StepImage(6, 4)
    /\ pl.dstp[1, 2] = UInt8Max /\ pl.dstp[2, 3] = UInt8Max
    /\ pl.dstp[1, 1] = 0 /\ pl.dstp[2, 4] = 0 /\ pl.dstp[0, 2] = 0

\* Scenario A with the kernels that fit the plane.
FlatSceneWithinPlane ==
    pl.pc = "done" /\ IsFlatScene /\ pl.radius < pl.height =>
        /\ pl.mode = 0 => \A c \in PlaneCells : pl.dstp[c] = 0
        /\ pl.mode = -1 => \A c \in PlaneCells : pl.dstp[c] = 100

\* C13: at the start of gaussianBlurVertical() and after each shift, every
\* row pointer of the window addresses a row in [0, height - 1], also when
\* radius >= height.
C13_WindowWithinPlane ==
    \A i \in 1 .. 2 * pl.radius + 1 : pl.window[i] \in 0 .. pl.height - 1

\* The window of a plane taller than the radius stays within the plane.
WindowWithinTallPlane == pl.radius < pl.height => C13_WindowWithinPlane

Clamp(v, lo, hi) == Max(lo, Min(v, hi))

\* C14: a tap that falls outside the plane reads the nearest edge sample:
\* for output row y and tap k the row clamp(y + k, 0, height - 1), and in the
\* row buffer column 0 at every position -i and column width - 1 at every
\* position width - 1 + i.
C14_NearestEdgeSample ==
    /\ pl.pc = "gaussianBlur" =>
         \A k \in -pl.radius .. pl.radius :
            pl.window[k + pl.radius + 1] = Clamp(pl.y + k, 0, pl.height - 1)
    /\ pl.pc = "gaussianBlur" /\ pl.y > 0 =>
         \A i \in 1 .. pl.radius :
            /\ pl.buffer[-i] = pl.buffer[0]
            /\ pl.buffer[pl.width - 1 + i] = pl.buffer[pl.width - 1]

\* With radius 1 the only tap outside the plane on either side reads the
\* edge sample, as long as the plane has more than one row.
NearestEdgeSampleAtRadiusOne ==
    pl.radius = 1 /\ pl.height > 1 => C14_NearestEdgeSample

\* The two neighbours of pixel c along the axis of a bin, as C15 names them:
\* left and right, up-right and down-left, up and down, up-left and
\* down-right.  Row numbers grow downwards.
AxisNeighbours(c, bin) ==
    CASE bin = 0 -> {<<c[1], c[2] - 1>>, <<c[1], c[2] + 1>>}
      [] bin = 1 -> {<<c[1] - 1, c[2] + 1>>, <<c[1] + 1, c[2] - 1>>}
      [] bin = 2 -> {<<c[1] - 1, c[2]>>, <<c[1] + 1, c[2]>>}
      [] bin = 3 -> {<<c[1] - 1, c[2] - 1>>, <<c[1] + 1, c[2] + 1>>}

PlaneMagnitude(c) == Magnitude(pl.gradient[c])

\* C15: after non-maximum suppression an interior pixel holds its own
\* magnitude if and only if that magnitude is at least that of both
\* neighbours along the axis of its direction bin, and the suppressed
\* sentinel otherwise.
C15_LocalMaximaKept ==
    pl.pc = "hysteresis" =>
        \A c \in PlaneInterior :
            pl.blur[c] =
                IF \A n \in AxisNeighbours(c, getBin4(pl.direction[c])) :
                       PlaneMagnitude(c) >= PlaneMagnitude(n)
                THEN PlaneMagnitude(c) ELSE -FltMax

\* A pixel with a diagonal direction kept although a neighbour on the other
\* diagonal is larger.
C15_Witness ==
    /\ pl.pc = "hysteresis"
    /\ \E c \in PlaneInterior :
         /\ getBin4(pl.direction[c]) = 1
         /\ pl.blur[c] = PlaneMagnitude(c) /\ pl.blur[c] > 0
         /\ \E n \in AxisNeighbours(c, 3) : PlaneMagnitude(n) > PlaneMagnitude(c)

\* nonMaximumSuppression() has returned and the encoder has not yet run.
MapReady == pl.pc \in {"hysteresis", "encode"} /\ pl.mode = 0

\* Every pixel of the first and last row and column holds the suppressed
\* sentinel after non-maximum suppression and after hysteresis, and is not
\* an edge of the output.
BorderHoldsSentinel ==
    /\ MapReady =>
         \A c \in PlaneCells \ PlaneInterior : pl.blur[c] = -FltMax
    /\ pl.pc = "done" /\ pl.mode = 0 =>
         \A c \in PlaneCells \ PlaneInterior : pl.blur[c] = -FltMax /\ pl.dstp[c] = 0

\* A step of non-maximum suppression leaves the rows of the blur block from
\* row height on as they were.
SuppressionWithinMap ==
    pl.pc = "nonMaximumSuppression" =>
        \A c \in DOMAIN pl.blur : c[1] >= pl.height => pl'.blur[c] = pl.blur[c]

\* C16: for every width >= 1 and height >= 1 the pixels of the first and last
\* row and column hold the suppressed sentinel after non-maximum suppression
\* and after hysteresis, so none is confirmed, and the writes that put it
\* there touch only rows 0 .. height - 1 of the map.
C16_BorderSuppressed == [](BorderHoldsSentinel) /\ [][SuppressionWithinMap]_vars

\* The write of line 666 stays within a map of two rows or more.
SuppressionWithinTallMap == [][pl.height >= 2 => SuppressionWithinMap]_vars

\* The angle of the vector dir lies in [0, pi): above the x axis, or on its
\* non-negative half (atan2(0, 0) is 0).
InHalfTurn(dir) == dir.dy > 0 \/ (dir.dy = 0 /\ dir.dx >= 0)

\* The angle of the vector dir is pi.
IsPi(dir) == dir.dy = 0 /\ dir.dx < 0

\* C20: for every pair (gx, gy), gy = 0 with gx < 0 included, the direction
\* stored by detectEdge() lies in [0, pi).
C20_DirectionInHalfTurn ==
    EdgesDone /\ pl.mode # 1 =>
        \A c \in PlaneCells :
            /\ pl.direction[c] = Direction(pl.gradient[c])
            /\ InHalfTurn(pl.direction[c])

\* Every stored direction lies in [0, pi], and is pi only for gy = 0, gx < 0.
DirectionInClosedHalfTurn ==
    EdgesDone /\ pl.mode # 1 =>
        \A c \in PlaneCells :
            /\ InHalfTurn(pl.direction[c]) \/ IsPi(pl.direction[c])
            /\ IsPi(pl.direction[c]) <=>
                  pl.gradient[c].gy = 0 /\ pl.gradient[c].gx < 0

\* The rows the stencil of row y reads are y and its neighbours, the row
\* above the first being the first and the row below the last the last.
StencilRows ==
    pl.pc = "detectEdge" =>
        /\ pl.srcpp = Clamp(pl.y - 1, 0, pl.height - 1)
        /\ pl.srcp = pl.y
        /\ pl.srcpn = Clamp(pl.y + 1, 0, pl.height - 1)

\* The blurred plane with column -1 a copy of column 0 and column width a
\* copy of column width - 1.
Replicated ==
    [c \in (0 .. pl.height - 1) \X (-1 .. pl.width) |->
        pl.blur[c[1], Clamp(c[2], 0, pl.width - 1)]]

\* Every gradient is the stencil on the replicated neighbours.
StencilValues ==
    EdgesDone /\ BlurDone =>
        \A c \in PlaneCells :
            pl.gradient[c] =
                Gradient(Replicated, Clamp(c[1] - 1, 0, pl.height - 1), c[1],
                         Clamp(c[1] + 1, 0, pl.height - 1), c[2], pl.op)

\* A step of detectEdge() leaves the rows of the blur block from row height
\* on as they were.
DetectWithinBlur ==
    pl.pc = "detectEdge" =>
        \A c \in DOMAIN pl.blur : c[1] >= pl.height => pl'.blur[c] = pl.blur[c]

\* C22: for every width >= 1 and height >= 1, heights 1 and 2 included,
\* detectEdge() evaluates the stencil at every pixel with each neighbour
\* outside the plane replaced by the nearest sample of the blurred plane, and
\* reads and writes only rows 0 .. height - 1 of the blur block.
C22_StencilWithinPlane ==
    [](StencilRows /\ StencilValues) /\ [][DetectWithinBlur]_vars

\* The same on the planes of two rows or more.
StencilWithinTallPlane ==
    [](pl.height >= 2 => StencilRows /\ StencilValues)
        /\ [][pl.height >= 2 => DetectWithinBlur]_vars

(***************************************************************************)
(* Claims on getBin(), checked under SpecBin.                               *)
(***************************************************************************)
\* k = floor(dir * n / pi + 0.5) for the angle dir = num * pi / den.
RoundsToBin(dir, n, k) ==
    /\ 2 * k * dir.den <= 2 * dir.num * n + dir.den
    /\ 2 * dir.num * n + dir.den < 2 * (k + 1) * dir.den

\* The integer getBin: the rounded bucket below n, and 0 when it reaches n.
IntegerBinFolded ==
    bn.pc = "done" /\ (bn.sampleType = "stInteger" \/ bn.mode = 0) =>
        /\ bn.bin.den = 1 /\ bn.bin.num \in 0 .. bn.n - 1
        /\ \/ RoundsToBin(bn.dir, bn.n, bn.bin.num)
           \/ bn.bin.num = 0 /\ RoundsToBin(bn.dir, bn.n, bn.n)

\* The float getBin: 0 when the bucket dir / pi equals bins.
FloatBinFolded ==
    bn.pc = "done" /\ bn.sampleType = "stFloat" /\ bn.mode # 0 =>
        bn.bin.num * bn.dir.den =
            IF bn.dir.num = bn.bins * bn.dir.den THEN 0 ELSE bn.dir.num * bn.bin.den

\* C21: getBin with n buckets returns floor(direction * n / pi + 0.5) when
\* that is below n and 0 when it equals n, so that for every direction in
\* [0, pi] the result is in 0 .. n - 1; for float samples (bins = 1) the
\* bucket is folded to 0 in the same way when it equals bins.
C21_BinFolded == IntegerBinFolded /\ FloatBinFolded

\* The float getBin as the code has it: dir / pi, for every angle up to pi.
FloatBinUnfolded ==
    bn.pc = "done" /\ bn.sampleType = "stFloat" /\ bn.mode # 0 =>
        bn.bin.num * bn.dir.den = bn.dir.num * bn.bin.den

\* getBin4 on the vectors along the axes and the diagonals agrees with
\* getBin on their angles.
getBin4Agrees ==
    /\ getBin4([dx |-> 1, dy |-> 0]) = getBin(Ratio(0, 1), 4)
    /\ getBin4([dx |-> 1, dy |-> 1]) = getBin(Ratio(1, 4), 4)
    /\ getBin4([dx |-> 0, dy |-> 1]) = getBin(Ratio(1, 2), 4)
    /\ getBin4([dx |-> -1, dy |-> 1]) = getBin(Ratio(3, 4), 4)
    /\ getBin4([dx |-> -1, dy |-> 0]) = getBin(Ratio(1, 1), 4)

(***************************************************************************)
(* Claims on the coordinates hysteresis() pushes, checked under SpecHyst    *)
(* and SpecHystLow.                                                         *)
(***************************************************************************)
\* Every entry of the stack is an interior pixel of the plane.
StackInterior ==
    hy.pc # "idle" =>
        \A k \in 1 .. Len(hy.pos) :
            /\ 1 <= hy.pos[k][1] /\ hy.pos[k][1] <= hy.width - 2
            /\ 1 <= hy.pos[k][2] /\ hy.pos[k][2] <= hy.height - 2

\* C23: for every accepted pair t_l < t_h, every coordinate pushed on the
\* stack is an interior pixel, and so the drain loop reads and writes no cell
\* outside [0, width) x [0, height) of the map and the visit mask.
C23_PushedInterior == StackInterior /\ hy.pc # "stray"

\* With t_l above -FLT_MAX (SpecHyst) every pushed coordinate is interior and
\* every cell around a popped entry lies in the plane.
PushedInteriorAboveSentinel ==
    /\ StackInterior
    /\ HystBranch(hy) = "pop" => AroundWithinMap(hy)

\* A border pixel is on the stack: t_l = -FLT_MAX let the sentinel through.
BorderPushed ==
    /\ hy.pc = "drain"
    /\ hy.t_l = -FltMax
    /\ \E k \in 1 .. Len(hy.pos) :
          IsBorder(hy.width, hy.height, <<hy.pos[k][2], hy.pos[k][1]>>)

(***************************************************************************)
(* The stack over every accepted pair, checked under SpecHystLow: the       *)
(* border entries of the previous section are popped.  C19_Terminates is    *)
(* checked over the same pairs under SpecHystLowFair.                       *)
(***************************************************************************)
\* C18, in every state of a pass for every accepted pair: index is that of
\* the last entry and within the array, no entry is on the stack twice, and
\* every entry is a marked pixel of the visit mask.
C18_EveryAcceptedPair ==
    hy.pc \in {"scan", "drain", "done", "encoded", "stray"} =>
        /\ hy.index = Len(hy.pos) - 1
        /\ hy.index \in -1 .. hy.width * hy.height - 1
        /\ \A j, k \in 1 .. Len(hy.pos) : j # k => hy.pos[j] # hy.pos[k]
        /\ StackCells(hy) \subseteq MarkedCells(hy)

\* A coordinate outside the plane is on the stack.
OutsidePushed ==
    /\ hy.pc = "stray"
    /\ StackCells(hy) \ Cells(hy.width, hy.height) # {}

====
